---------------------------- MODULE Spec2Model ----------------------------
(***************************************************************************)
(* Geometric feature-classification pipeline of cv_model/app/utils:        *)
(* EyeClassifier, NoseClassifier, LipClassifier, QualityValidator and      *)
(* BoundingBoxCalculator, driven as FaceAnalyzer.analyze_image drives them.*)
(*                                                                         *)
(* Numbers.  The code computes in floating point on coordinates normalized *)
(* to [0,1].  Here every real quantity q is the integer q * SCALE, with    *)
(* SCALE = 10000, so a landmark coordinate is an integer 0..10000, the     *)
(* epsilon 0.001 is 10 and a confidence of 0.95 is 9500.  Quotients and    *)
(* square roots are rounded down to the next multiple of 1/SCALE.          *)
(***************************************************************************)
EXTENDS Integers, Sequences, FiniteSets, TLC

SCALE == 100 * 100

Abs(a) == IF a < 0 THEN -a ELSE a

Min2(a, b) == IF a <= b THEN a ELSE b

Max2(a, b) == IF a >= b THEN a ELSE b

\* q * num / den for a fixed-point q and a decimal literal num/den of the code
Times(q, num, den) == (q * num) \div den

\* the product of two fixed-point numbers
Mul(a, b) == (a * b) \div SCALE

RECURSIVE IsqrtIter(_, _, _)
IsqrtIter(n, lo, hi) ==
    IF lo >= hi THEN lo
    ELSE LET mid == (lo + hi + 1) \div 2
         IN  IF mid * mid <= n THEN IsqrtIter(n, mid, hi)
                               ELSE IsqrtIter(n, lo, mid - 1)

\* floor of the square root
Isqrt(n) == IsqrtIter(n, 0, Min2(n, 46340))

\* np.linalg.norm of a 2D difference, in coordinate units
Norm2(dx, dy) == Isqrt(dx * dx + dy * dy)

RECURSIVE SumSeq(_)
SumSeq(s) == IF s = <<>> THEN 0 ELSE Head(s) + SumSeq(Tail(s))

RECURSIVE SumSq(_)
SumSq(s) == IF s = <<>> THEN 0 ELSE Head(s) * Head(s) + SumSq(Tail(s))

RECURSIVE InsertSorted(_, _)
InsertSorted(v, s) ==
    IF s = <<>> THEN <<v>>
    ELSE IF v <= Head(s) THEN <<v>> \o s
    ELSE <<Head(s)>> \o InsertSorted(v, Tail(s))

RECURSIVE Sorted(_)
Sorted(s) == IF s = <<>> THEN <<>> ELSE InsertSorted(Head(s), Sorted(Tail(s)))

\* np.median of a non-empty list
Median(s) ==
    LET t == Sorted(s)
        n == Len(t)
    IN  IF n % 2 = 1 THEN t[(n + 1) \div 2]
        ELSE (t[n \div 2] + t[n \div 2 + 1]) \div 2

\* np.std (population standard deviation) of a non-empty list
StdDev(s) ==
    LET n == Len(s)
        d == n * SumSq(s) - SumSeq(s) * SumSeq(s)
    IN  Isqrt(d) \div n

\* a Python division a / b: it raises ZeroDivisionError when b = 0
Divide(a, b) ==
    [raised |-> b = 0, val |-> IF b = 0 THEN 0 ELSE (a * SCALE) \div b]

NoDivision(v) == [raised |-> FALSE, val |-> v]

(***************************************************************************)
(* Landmark index tables                                                   *)
(***************************************************************************)
RIGHT_EYE_LANDMARKS ==
    [ upper_lid     |-> <<159, 160, 161, 246, 33, 7, 163>>,
      lower_lid     |-> <<144, 145, 153, 154, 155, 133>>,
      inner_corner  |-> 133,
      outer_corner  |-> 33,
      top_center    |-> 159,
      bottom_center |-> 145,
      iris_center   |-> 468 ]

LEFT_EYE_LANDMARKS ==
    [ upper_lid     |-> <<386, 387, 388, 466, 263, 249, 390>>,
      lower_lid     |-> <<373, 374, 380, 381, 382, 362>>,
      inner_corner  |-> 362,
      outer_corner  |-> 263,
      top_center    |-> 386,
      bottom_center |-> 374,
      iris_center   |-> 473 ]

\* EyeClassifier.THRESHOLDS
round_min == (50 * SCALE) \div 100
almond_min == (30 * SCALE) \div 100
almond_max == (50 * SCALE) \div 100
monolid_max == (12 * SCALE) \div 100
hooded_max == (30 * SCALE) \div 100
upturned_min == (3 * SCALE) \div 10
downturned_max == -((3 * SCALE) \div 10)

\* the width floor and the eye-height guard 0.001
EYE_EPS == SCALE \div 1000

(***************************************************************************)
(* EyeClassifier                                                           *)
(***************************************************************************)
\* the sanity band with its limits included
RECURSIVE HeightSamples_inclusive(_, _, _, _)
HeightSamples_inclusive(landmarks, upper, lower, i) ==
    IF i > Min2(Len(upper), Len(lower)) THEN <<>>
    ELSE LET height == Abs(landmarks[upper[i]].y - landmarks[lower[i]].y)
             rest == HeightSamples_inclusive(landmarks, upper, lower, i + 1)
         IN  IF SCALE \div 1000 <= height /\ height <= SCALE \div 2
             THEN <<height>> \o rest
             ELSE rest

\* the paired lid heights that pass the sanity band 0.001 < h < 0.5
RECURSIVE HeightSamples(_, _, _, _)
HeightSamples(landmarks, upper, lower, i) ==
    IF i > Min2(Len(upper), Len(lower)) THEN <<>>
    ELSE LET height == Abs(landmarks[upper[i]].y - landmarks[lower[i]].y)
             rest == HeightSamples(landmarks, upper, lower, i + 1)
         IN  IF EYE_EPS < height /\ height < SCALE \div 2
             THEN <<height>> \o rest
             ELSE rest

RECURSIVE SumField(_, _, _)
SumField(landmarks, idxs, f) ==
    IF idxs = <<>> THEN 0
    ELSE (IF f = "y" THEN landmarks[Head(idxs)].y ELSE landmarks[Head(idxs)].z)
         + SumField(landmarks, Tail(idxs), f)

\* the final clamp left out
calculate_eyelid_coverage_unclamped(landmarks, eye_landmarks) ==
    LET n == Len(eye_landmarks.upper_lid)
        sum_y == SumField(landmarks, eye_landmarks.upper_lid, "y")
        top_center_y == landmarks[eye_landmarks.top_center].y
        total_eye_height == Abs(landmarks[eye_landmarks.bottom_center].y - top_center_y)
    IN  IF total_eye_height > EYE_EPS
        THEN (Abs(sum_y - n * top_center_y) * SCALE) \div (n * total_eye_height)
        ELSE SCALE \div 2

calculate_eyelid_coverage(landmarks, eye_landmarks) ==
    LET n == Len(eye_landmarks.upper_lid)
        sum_y == SumField(landmarks, eye_landmarks.upper_lid, "y")
        top_center_y == landmarks[eye_landmarks.top_center].y
        bottom_center_y == landmarks[eye_landmarks.bottom_center].y
        total_eye_height == Abs(bottom_center_y - top_center_y)
        \* |mean(upper_lid_y) - top_y| / total, both scaled by n
        coverage_ratio ==
            IF total_eye_height > EYE_EPS
            THEN (Abs(sum_y - n * top_center_y) * SCALE) \div (n * total_eye_height)
            ELSE SCALE \div 2
    IN  Max2(0, Min2(SCALE, coverage_ratio))

\* a tilt measured from the image-left corner to the image-right corner
calculate_corner_angle_by_side(inner_corner, outer_corner) ==
    IF outer_corner.x <= inner_corner.x
    THEN (inner_corner.y - outer_corner.y) * 100
    ELSE (outer_corner.y - inner_corner.y) * 100

\* tilt = (inner_y - outer_y) * 100
calculate_corner_angle(inner_corner, outer_corner) ==
    (inner_corner.y - outer_corner.y) * 100

analyze_eye_depth_3d(landmarks, eye_landmarks) ==
    LET nu == Len(eye_landmarks.upper_lid)
        nl == Len(eye_landmarks.lower_lid)
        \* (mean upper z - mean lower z) * nu * nl
        diff_num == nl * SumField(landmarks, eye_landmarks.upper_lid, "z")
                    - nu * SumField(landmarks, eye_landmarks.lower_lid, "z")
        thr == (SCALE \div 100) * nu * nl
    IN  [ eyelid_depth_diff |-> diff_num \div (nu * nl),
          is_deep_set       |-> diff_num < -thr,
          is_prominent      |-> diff_num > thr ]

analyze_single_eye(landmarks, eye_landmarks) ==
    LET inner_corner == landmarks[eye_landmarks.inner_corner]
        outer_corner == landmarks[eye_landmarks.outer_corner]
        heights == HeightSamples(landmarks, eye_landmarks.upper_lid,
                                 eye_landmarks.lower_lid, 1)
        eye_height ==
            IF heights # <<>> THEN Median(heights)
            ELSE Abs(landmarks[eye_landmarks.top_center].y
                     - landmarks[eye_landmarks.bottom_center].y)
        raw_width == Norm2(outer_corner.x - inner_corner.x,
                           outer_corner.y - inner_corner.y)
        eye_width == IF raw_width < EYE_EPS THEN EYE_EPS ELSE raw_width
        ratio == IF eye_width > 0 THEN Divide(eye_height, eye_width)
                                  ELSE NoDivision(0)
        height_variance == IF Len(heights) > 1 THEN StdDev(heights) ELSE 0
    IN  [ aspect_ratio    |-> Max2(0, Min2(SCALE, ratio.val)),
          eyelid_coverage |-> calculate_eyelid_coverage(landmarks, eye_landmarks),
          corner_angle    |-> calculate_corner_angle(inner_corner, outer_corner),
          width           |-> eye_width,
          height          |-> eye_height,
          depth_metrics   |-> analyze_eye_depth_3d(landmarks, eye_landmarks),
          measurement_stability |-> (SCALE * SCALE) \div (SCALE + height_variance * 10),
          height_samples  |-> Len(heights),
          raised          |-> ratio.raised ]

\* the depth flags of the two eyes joined by AND
average_eye_metrics_both_flags(right_metrics, left_metrics) ==
    [ aspect_ratio    |-> (right_metrics.aspect_ratio + left_metrics.aspect_ratio) \div 2,
      eyelid_coverage |-> (right_metrics.eyelid_coverage
                           + left_metrics.eyelid_coverage) \div 2,
      corner_angle    |-> (right_metrics.corner_angle + left_metrics.corner_angle) \div 2,
      depth_metrics   |->
        [ eyelid_depth_diff |-> (right_metrics.depth_metrics.eyelid_depth_diff
                                 + left_metrics.depth_metrics.eyelid_depth_diff) \div 2,
          is_deep_set  |-> right_metrics.depth_metrics.is_deep_set
                           /\ left_metrics.depth_metrics.is_deep_set,
          is_prominent |-> right_metrics.depth_metrics.is_prominent
                           /\ left_metrics.depth_metrics.is_prominent ] ]

average_eye_metrics(right_metrics, left_metrics) ==
    [ aspect_ratio    |-> (right_metrics.aspect_ratio + left_metrics.aspect_ratio) \div 2,
      eyelid_coverage |-> (right_metrics.eyelid_coverage
                           + left_metrics.eyelid_coverage) \div 2,
      corner_angle    |-> (right_metrics.corner_angle + left_metrics.corner_angle) \div 2,
      depth_metrics   |->
        [ eyelid_depth_diff |-> (right_metrics.depth_metrics.eyelid_depth_diff
                                 + left_metrics.depth_metrics.eyelid_depth_diff) \div 2,
          is_deep_set  |-> right_metrics.depth_metrics.is_deep_set
                           \/ left_metrics.depth_metrics.is_deep_set,
          is_prominent |-> right_metrics.depth_metrics.is_prominent
                           \/ left_metrics.depth_metrics.is_prominent ] ]

\* the angle type and its confidence (eye_classifier.py lines 455-467)
angle_of(corner_angle, measurement_quality) ==
    LET angle_strength == Abs(corner_angle) \div 15
        conf == Mul(6000 + Times(Min2(angle_strength, SCALE), 35, 100),
                    measurement_quality)
    IN  IF corner_angle > upturned_min
        THEN [type |-> "Upturned", confidence |-> conf]
        ELSE IF corner_angle < downturned_max
        THEN [type |-> "Downturned", confidence |-> conf]
        ELSE [type |-> "None", confidence |-> 0]

\* the confidence of a Hooded base shape (eye_classifier.py lines 483-487)
hooded_confidence(eyelid_coverage, is_deep_set, eyelid_depth_diff) ==
    IF is_deep_set /\ eyelid_depth_diff < -((2 * SCALE) \div 100)
    THEN Min2(9500, 8500 + Abs(eyelid_depth_diff) * 5)
    ELSE Min2(9000, 7000 + Times(hooded_max - eyelid_coverage, 15, 10))

\* the Hooded test tried before the Monolid test
base_of_hooded_first(metrics, measurement_quality) ==
    IF metrics.eyelid_coverage < hooded_max \/ metrics.depth_metrics.is_deep_set
    THEN [ shape |-> "Hooded",
           confidence |-> Mul(hooded_confidence(metrics.eyelid_coverage,
                                                metrics.depth_metrics.is_deep_set,
                                                metrics.depth_metrics.eyelid_depth_diff),
                              measurement_quality) ]
    ELSE [ shape |-> "Almond", confidence |-> Mul(6500, measurement_quality) ]

\* the base shape and its confidence (eye_classifier.py lines 469-506)
base_of(metrics, measurement_quality) ==
    LET aspect_ratio == metrics.aspect_ratio
        eyelid_coverage == metrics.eyelid_coverage
        is_deep_set == metrics.depth_metrics.is_deep_set
        eyelid_depth_diff == metrics.depth_metrics.eyelid_depth_diff
        optimal_almond_ratio == (almond_min + almond_max) \div 2
    IN  IF eyelid_coverage < monolid_max
        THEN [ shape |-> "Monolid",
               confidence |-> Mul(Min2(9500, 7500 + (monolid_max - eyelid_coverage) * 2),
                                  measurement_quality) ]
        ELSE IF eyelid_coverage < hooded_max \/ is_deep_set
        THEN [ shape |-> "Hooded",
               confidence |-> Mul(hooded_confidence(eyelid_coverage, is_deep_set,
                                                    eyelid_depth_diff),
                                  measurement_quality) ]
        ELSE IF aspect_ratio > round_min
        THEN [ shape |-> "Round",
               confidence |-> Mul(Min2(9500, 7000 + (aspect_ratio - round_min) * 2),
                                  measurement_quality) ]
        ELSE [ shape |-> "Almond",
               confidence |-> Mul(Max2(6500, 9000 - Abs(aspect_ratio
                                                        - optimal_almond_ratio) * 2),
                                  measurement_quality) ]

\* the thresholds the combination rule had before it was made more sensitive
angle_is_primary_strict(angle, corner_angle) ==
    /\ angle.type # "None"
    /\ angle.confidence > (75 * SCALE) \div 100
    /\ Abs(corner_angle) > 5 * SCALE

\* angle_type and angle_confidence > 0.65 and abs(corner_angle) > 3.0
angle_is_primary(angle, corner_angle) ==
    /\ angle.type # "None"
    /\ angle.confidence > (65 * SCALE) \div 100
    /\ Abs(corner_angle) > 3 * SCALE

\* the scores keeping the primary shape's entry only, and the base shape
\* listed as secondary whenever the angle type is primary
determine_eye_shape_primary_score_only(metrics, measurement_quality) ==
    LET corner_angle == metrics.corner_angle
        angle == angle_of(corner_angle, measurement_quality)
        base == base_of(metrics, measurement_quality)
    IN  IF angle_is_primary(angle, corner_angle)
        THEN [ primary_shape |-> angle.type,
               secondary_features |-> <<base.shape>>,
               confidence_scores |-> angle.type :> angle.confidence,
               overall_confidence |-> angle.confidence ]
        ELSE [ primary_shape |-> base.shape,
               secondary_features |->
                   IF angle.type # "None" /\ angle.confidence > 6000
                   THEN <<angle.type>> ELSE <<>>,
               confidence_scores |-> base.shape :> base.confidence,
               overall_confidence |-> base.confidence ]

determine_eye_shape(metrics, measurement_quality) ==
    LET corner_angle == metrics.corner_angle
        angle == angle_of(corner_angle, measurement_quality)
        base == base_of(metrics, measurement_quality)
        angle_scores == IF angle.type = "None" THEN <<>>
                        ELSE angle.type :> angle.confidence
        confidence_scores == angle_scores @@ (base.shape :> base.confidence)
        angle_primary == angle_is_primary(angle, corner_angle)
    IN  IF angle_primary
        THEN [ primary_shape |-> angle.type,
               secondary_features |->
                   IF base.shape # "Almond" /\ base.confidence > 6500
                   THEN <<base.shape>> ELSE <<>>,
               confidence_scores |-> confidence_scores,
               overall_confidence |-> angle.confidence ]
        ELSE [ primary_shape |-> base.shape,
               secondary_features |->
                   IF angle.type # "None" /\ angle.confidence > 6000
                   THEN <<angle.type>> ELSE <<>>,
               confidence_scores |-> confidence_scores,
               overall_confidence |-> base.confidence ]

\* every index _analyze_single_eye, _calculate_eyelid_coverage and
\* _analyze_eye_depth_3d read for one eye
eye_indices(eye_landmarks) ==
    {eye_landmarks.upper_lid[k] : k \in DOMAIN eye_landmarks.upper_lid}
    \cup {eye_landmarks.lower_lid[k] : k \in DOMAIN eye_landmarks.lower_lid}
    \cup { eye_landmarks.inner_corner, eye_landmarks.outer_corner,
           eye_landmarks.top_center, eye_landmarks.bottom_center,
           eye_landmarks.iris_center }

\* landmarks[idx] on a Python list: IndexError when idx >= len(landmarks)
IndexError == [raised |-> TRUE, error |-> "IndexError"]

\* classify_eyes when every index it reads exists
classify_eyes_indexed(landmarks) ==
    LET right_eye_metrics == analyze_single_eye(landmarks, RIGHT_EYE_LANDMARKS)
        left_eye_metrics == analyze_single_eye(landmarks, LEFT_EYE_LANDMARKS)
        avg_metrics == average_eye_metrics(right_eye_metrics, left_eye_metrics)
        measurement_quality == (right_eye_metrics.measurement_stability
                                + left_eye_metrics.measurement_stability) \div 2
        classification == determine_eye_shape(avg_metrics, measurement_quality)
    IN  [ eye_shape          |-> classification.primary_shape,
          secondary_features |-> classification.secondary_features,
          confidence_scores  |-> classification.confidence_scores,
          confidence         |-> classification.overall_confidence,
          details |-> [ aspect_ratio    |-> avg_metrics.aspect_ratio,
                        eyelid_coverage |-> avg_metrics.eyelid_coverage,
                        corner_angle    |-> avg_metrics.corner_angle,
                        depth_metrics   |-> avg_metrics.depth_metrics,
                        measurement_quality |-> measurement_quality ],
          metrics |-> [ right_eye |-> right_eye_metrics,
                        left_eye  |-> left_eye_metrics ],
          raised  |-> right_eye_metrics.raised \/ left_eye_metrics.raised ]

\* a missing landmark read as the origin
ZeroFilled(landmarks) ==
    [ i \in 0..477 |-> IF i \in DOMAIN landmarks THEN landmarks[i]
                       ELSE [x |-> 0, y |-> 0, z |-> 0] ]

\* zero substituted for the landmarks the list does not hold
classify_eyes_zero_filled(landmarks) == classify_eyes_indexed(ZeroFilled(landmarks))

classify_eyes(landmarks) ==
    IF \E i \in eye_indices(RIGHT_EYE_LANDMARKS) \cup eye_indices(LEFT_EYE_LANDMARKS) :
           i \notin DOMAIN landmarks
    THEN IndexError
    ELSE classify_eyes_indexed(landmarks)

(***************************************************************************)
(* NoseClassifier                                                          *)
(***************************************************************************)
NOSE_LANDMARKS ==
    [ tip |-> 1, left_nostril |-> 98, right_nostril |-> 327, left_ala |-> 129,
      right_ala |-> 358, bridge_top |-> 168, left_inner_nostril |-> 219,
      right_inner_nostril |-> 439 ]

FACE_LANDMARKS ==
    [ left_cheek |-> 234, right_cheek |-> 454, left_face_contour |-> 127,
      right_face_contour |-> 356 ]

\* NoseClassifier.THRESHOLDS
nose_narrow_max == (25 * SCALE) \div 100
nose_medium_min == (25 * SCALE) \div 100
nose_medium_max == (35 * SCALE) \div 100

\* 2D distance between two landmarks
Dist(landmarks, i, j) ==
    Norm2(landmarks[j].x - landmarks[i].x, landmarks[j].y - landmarks[i].y)

calculate_face_width(landmarks) ==
    Dist(landmarks, FACE_LANDMARKS.left_cheek, FACE_LANDMARKS.right_cheek)

calculate_nose_metrics_multipoint(landmarks) ==
    LET ala_width == Dist(landmarks, NOSE_LANDMARKS.left_ala, NOSE_LANDMARKS.right_ala)
        nostril_width == Dist(landmarks, NOSE_LANDMARKS.left_nostril,
                              NOSE_LANDMARKS.right_nostril)
        inner_width == Dist(landmarks, NOSE_LANDMARKS.left_inner_nostril,
                            NOSE_LANDMARKS.right_inner_nostril)
        widths == <<ala_width, nostril_width, inner_width>>
        width_variance == StdDev(widths)
        flare == IF inner_width > 0 THEN Divide(ala_width - inner_width, inner_width)
                                    ELSE NoDivision(0)
    IN  [ avg_width     |-> SumSeq(widths) \div Len(widths),
          ala_width     |-> ala_width,
          nostril_width |-> nostril_width,
          inner_width   |-> inner_width,
          measurement_stability |-> (SCALE * SCALE) \div (SCALE + width_variance * 5),
          width_variance |-> width_variance,
          nostril_flare |-> flare.val,
          sample_count  |-> Len(widths),
          raised        |-> flare.raised ]

analyze_nose_depth_3d(landmarks) ==
    LET nose_tip_z == landmarks[NOSE_LANDMARKS.tip].z
        bridge_top_z == landmarks[NOSE_LANDMARKS.bridge_top].z
        \* twice the face plane z, the mean of the two cheeks
        face_plane_2z == landmarks[FACE_LANDMARKS.left_cheek].z
                         + landmarks[FACE_LANDMARKS.right_cheek].z
        nose_projection_2 == 2 * nose_tip_z - face_plane_2z
        bridge_prominence_2 == 2 * bridge_top_z - face_plane_2z
    IN  [ nose_projection   |-> nose_projection_2 \div 2,
          bridge_prominence |-> bridge_prominence_2 \div 2,
          is_prominent      |-> nose_projection_2 > 2 * ((2 * SCALE) \div 100),
          is_flat           |-> nose_projection_2 < -(2 * (SCALE \div 100)),
          has_high_bridge   |-> bridge_prominence_2 > 2 * ((15 * SCALE) \div 1000) ]

\* the lower boundary 0.25 given to narrow
nose_bucket_boundary_narrow(ratio) ==
    IF ratio <= nose_narrow_max
    THEN [ category |-> "narrow",
           base_confidence |-> Min2(9500, 7000 + (nose_narrow_max - ratio) * 4) ]
    ELSE IF ratio <= nose_medium_max
    THEN [ category |-> "medium",
           base_confidence |->
               Max2(6500, 9000 - Abs(ratio - (nose_medium_min + nose_medium_max) \div 2) * 5) ]
    ELSE [ category |-> "wide",
           base_confidence |-> Min2(9500, 7000 + (ratio - nose_medium_max) * 4) ]

\* the medium confidence growing with the distance from the midpoint
nose_bucket_inverted_medium(ratio) ==
    IF ratio < nose_narrow_max
    THEN [ category |-> "narrow",
           base_confidence |-> Min2(9500, 7000 + (nose_narrow_max - ratio) * 4) ]
    ELSE IF ratio <= nose_medium_max
    THEN [ category |-> "medium",
           base_confidence |->
               Min2(9000, 6500 + Abs(ratio - (nose_medium_min + nose_medium_max) \div 2) * 5) ]
    ELSE [ category |-> "wide",
           base_confidence |-> Min2(9500, 7000 + (ratio - nose_medium_max) * 4) ]

\* category and confidence before the measurement-quality modifier
nose_bucket(ratio) ==
    IF ratio < nose_narrow_max
    THEN [ category |-> "narrow",
           base_confidence |-> Min2(9500, 7000 + (nose_narrow_max - ratio) * 4) ]
    ELSE IF ratio <= nose_medium_max
    THEN [ category |-> "medium",
           base_confidence |->
               Max2(6500, 9000 - Abs(ratio - (nose_medium_min + nose_medium_max) \div 2) * 5) ]
    ELSE [ category |-> "wide",
           base_confidence |-> Min2(9500, 7000 + (ratio - nose_medium_max) * 4) ]

\* the 3D boost without its cap
nose_boost_uncapped(category, confidence, depth_metrics) ==
    IF category = "wide" /\ depth_metrics.is_prominent
    THEN Times(confidence, 110, 100)
    ELSE IF category = "narrow" /\ depth_metrics.has_high_bridge
    THEN Times(confidence, 105, 100)
    ELSE confidence

\* the 3D boost of the nose confidence (nose_classifier.py lines 370-379)
nose_boost(category, confidence, depth_metrics) ==
    IF category = "wide" /\ depth_metrics.is_prominent
    THEN Min2(9500, Times(confidence, 110, 100))
    ELSE IF category = "narrow" /\ depth_metrics.has_high_bridge
    THEN Min2(9500, Times(confidence, 105, 100))
    ELSE confidence

\* the measurement-quality modifier left out
determine_nose_width_unscaled(ratio, measurement_stability, depth_metrics) ==
    [ category   |-> nose_bucket(ratio).category,
      confidence |-> nose_boost(nose_bucket(ratio).category,
                                nose_bucket(ratio).base_confidence, depth_metrics) ]

determine_nose_width(ratio, measurement_stability, depth_metrics) ==
    LET b == nose_bucket(ratio)
        confidence == Mul(b.base_confidence, measurement_stability)
    IN  [ category   |-> b.category,
          confidence |-> nose_boost(b.category, confidence, depth_metrics) ]

\* no guard at all
face_width_unguarded(face_width) == TRUE

\* the guard of the nose-to-face ratio (nose_classifier.py line 79)
face_width_ok(face_width) == face_width > 0

classify_nose(landmarks) ==
    LET nose_metrics == calculate_nose_metrics_multipoint(landmarks)
        face_width == calculate_face_width(landmarks)
        ratio == IF face_width_ok(face_width)
                 THEN Divide(nose_metrics.avg_width, face_width)
                 ELSE NoDivision(0)
        depth_metrics == analyze_nose_depth_3d(landmarks)
        classification == determine_nose_width(ratio.val,
                              nose_metrics.measurement_stability, depth_metrics)
    IN  [ nose_width |-> classification.category,
          confidence |-> classification.confidence,
          details |-> [ nose_to_face_ratio  |-> ratio.val,
                        nostril_flare       |-> nose_metrics.nostril_flare,
                        bridge_prominence   |-> depth_metrics.bridge_prominence,
                        measurement_quality |-> nose_metrics.measurement_stability ],
          measurements |-> [ nose_width  |-> nose_metrics.avg_width,
                             face_width  |-> face_width,
                             inner_width |-> nose_metrics.inner_width,
                             depth_metrics |-> depth_metrics ],
          raised |-> ratio.raised \/ nose_metrics.raised ]

(***************************************************************************)
(* LipClassifier                                                           *)
(***************************************************************************)
LIP_LANDMARKS ==
    [ left_corner |-> 61, right_corner |-> 291,
      upper_lip_top_center |-> 37, upper_lip_bottom_center |-> 13,
      lower_lip_top_center |-> 14, lower_lip_bottom_center |-> 17,
      upper_outer_lip |-> <<61, 185, 40, 39, 37, 267, 269, 270, 409, 291>>,
      lower_outer_lip |-> <<61, 146, 91, 181, 84, 17, 314, 405, 321, 375, 291>> ]

\* LipClassifier.THRESHOLDS
thin_max == (10 * SCALE) \div 100
lip_medium_min == (10 * SCALE) \div 100
lip_medium_max == (18 * SCALE) \div 100

\* sample_indices == [0, n//4, n//2, 3n//4, -1] for n = len(upper_outer)
lip_sample_indices ==
    LET n == Len(LIP_LANDMARKS.upper_outer_lip)
    IN  <<0, n \div 4, n \div 2, (3 * n) \div 4, -1>>

\* one height per sample index that passes the length test; every sample
\* measures the same centre pair top/bottom (lip_classifier.py lines 201-209)
RECURSIVE LipHeights(_, _, _, _)
LipHeights(landmarks, samples, top, bottom) ==
    IF samples = <<>> THEN <<>>
    ELSE LET idx == Head(samples)
             rest == LipHeights(landmarks, Tail(samples), top, bottom)
         IN  IF idx < Len(LIP_LANDMARKS.upper_outer_lip)
                /\ idx < Len(LIP_LANDMARKS.lower_outer_lip)
             THEN <<Abs(landmarks[top].y - landmarks[bottom].y)>> \o rest
             ELSE rest

calculate_mouth_width(landmarks) ==
    Dist(landmarks, LIP_LANDMARKS.left_corner, LIP_LANDMARKS.right_corner)

\* the guard of the three lip ratios (lip_classifier.py lines 217, 229, 230)
mouth_width_ok(mouth_width) == mouth_width > 0

calculate_lip_metrics_multipoint(landmarks) ==
    LET upper_heights == LipHeights(landmarks, lip_sample_indices,
                             LIP_LANDMARKS.upper_lip_top_center,
                             LIP_LANDMARKS.upper_lip_bottom_center)
        lower_heights == LipHeights(landmarks, lip_sample_indices,
                             LIP_LANDMARKS.lower_lip_top_center,
                             LIP_LANDMARKS.lower_lip_bottom_center)
        upper_thickness ==
            IF upper_heights # <<>> THEN Median(upper_heights)
            ELSE Dist(landmarks, LIP_LANDMARKS.upper_lip_top_center,
                      LIP_LANDMARKS.upper_lip_bottom_center)
        lower_thickness ==
            IF lower_heights # <<>> THEN Median(lower_heights)
            ELSE Dist(landmarks, LIP_LANDMARKS.lower_lip_top_center,
                      LIP_LANDMARKS.lower_lip_bottom_center)
        mouth_width == calculate_mouth_width(landmarks)
        total_height == upper_thickness + lower_thickness
        ratio == IF mouth_width_ok(mouth_width) THEN Divide(total_height, mouth_width)
                                                ELSE NoDivision(0)
        upper_ratio == IF mouth_width_ok(mouth_width)
                       THEN Divide(upper_thickness, mouth_width) ELSE NoDivision(0)
        lower_ratio == IF mouth_width_ok(mouth_width)
                       THEN Divide(lower_thickness, mouth_width) ELSE NoDivision(0)
        height_variance ==
            IF upper_heights # <<>> /\ lower_heights # <<>>
            THEN StdDev(upper_heights \o lower_heights) ELSE 0
    IN  [ upper_lip_thickness |-> upper_thickness,
          lower_lip_thickness |-> lower_thickness,
          total_lip_height    |-> total_height,
          mouth_width         |-> mouth_width,
          lip_height_to_width_ratio |-> ratio.val,
          upper_lip_ratio     |-> upper_ratio.val,
          lower_lip_ratio     |-> lower_ratio.val,
          measurement_stability |-> (SCALE * SCALE) \div (SCALE + height_variance * 10),
          height_samples      |-> Len(upper_heights) + Len(lower_heights),
          raised |-> ratio.raised \/ upper_ratio.raised \/ lower_ratio.raised ]

analyze_lip_depth_3d(landmarks) ==
    LET upper_center_z == landmarks[LIP_LANDMARKS.upper_lip_top_center].z
        lower_center_z == landmarks[LIP_LANDMARKS.lower_lip_bottom_center].z
        corner_sum_z == landmarks[LIP_LANDMARKS.left_corner].z
                        + landmarks[LIP_LANDMARKS.right_corner].z
        \* twice the average projection
        avg_projection_2 == upper_center_z + lower_center_z - corner_sum_z
    IN  [ avg_projection |-> avg_projection_2 \div 2,
          has_fullness   |-> avg_projection_2 > 2 * (SCALE \div 100) ]

\* the upper boundary 0.18 given to full
lip_bucket_boundary_full(total_ratio) ==
    IF total_ratio < thin_max
    THEN [ category |-> "thin",
           base_confidence |-> Min2(9500, 7500 + (thin_max - total_ratio) * 5) ]
    ELSE IF total_ratio < lip_medium_max
    THEN [ category |-> "medium",
           base_confidence |->
               Max2(6500, 9000 - Abs(total_ratio - (lip_medium_min + lip_medium_max) \div 2) * 4) ]
    ELSE [ category |-> "full",
           base_confidence |-> Min2(9500, 7500 + (total_ratio - lip_medium_max) * 3) ]

\* category and confidence before the measurement-quality modifier
lip_bucket(total_ratio) ==
    IF total_ratio < thin_max
    THEN [ category |-> "thin",
           base_confidence |-> Min2(9500, 7500 + (thin_max - total_ratio) * 5) ]
    ELSE IF total_ratio <= lip_medium_max
    THEN [ category |-> "medium",
           base_confidence |->
               Max2(6500, 9000 - Abs(total_ratio - (lip_medium_min + lip_medium_max) \div 2) * 4) ]
    ELSE [ category |-> "full",
           base_confidence |-> Min2(9500, 7500 + (total_ratio - lip_medium_max) * 3) ]

\* the 3D boost of the lip confidence (lip_classifier.py lines 299-300)
lip_boost(category, confidence, depth_metrics) ==
    IF depth_metrics.has_fullness /\ category = "full"
    THEN Min2(9500, Times(confidence, 110, 100))
    ELSE confidence

determine_lip_fullness(total_ratio, upper_ratio, lower_ratio, measurement_stability, depth_metrics) ==
    LET b == lip_bucket(total_ratio)
        confidence == Mul(b.base_confidence, measurement_stability)
    IN  [ category   |-> b.category,
          confidence |-> lip_boost(b.category, confidence, depth_metrics) ]

assess_lip_balance(upper_ratio, lower_ratio) ==
    LET ratio_difference == Abs(upper_ratio - lower_ratio)
    IN  IF ratio_difference < (2 * SCALE) \div 100 THEN "balanced"
        ELSE IF upper_ratio > lower_ratio
        THEN (IF ratio_difference > (5 * SCALE) \div 100
              THEN "upper_dominant" ELSE "slightly_upper_dominant")
        ELSE (IF ratio_difference > (5 * SCALE) \div 100
              THEN "lower_dominant" ELSE "slightly_lower_dominant")

classify_lips(landmarks) ==
    LET lip_metrics == calculate_lip_metrics_multipoint(landmarks)
        depth_metrics == analyze_lip_depth_3d(landmarks)
        classification == determine_lip_fullness(
                              lip_metrics.lip_height_to_width_ratio,
                              lip_metrics.upper_lip_ratio,
                              lip_metrics.lower_lip_ratio,
                              lip_metrics.measurement_stability, depth_metrics)
    IN  [ lip_fullness |-> classification.category,
          confidence   |-> classification.confidence,
          details |-> [ lip_height_to_width_ratio |-> lip_metrics.lip_height_to_width_ratio,
                        lip_balance |-> assess_lip_balance(lip_metrics.upper_lip_ratio,
                                                           lip_metrics.lower_lip_ratio),
                        lip_projection |-> depth_metrics.avg_projection,
                        measurement_quality |-> lip_metrics.measurement_stability ],
          measurements |-> lip_metrics,
          raised |-> lip_metrics.raised ]

(***************************************************************************)
(* QualityValidator                                                        *)
(***************************************************************************)
MAX_HEAD_ROTATION_DEGREES == 15
MIN_LANDMARK_CONFIDENCE == SCALE \div 2
MAX_EXPRESSION_THRESHOLD == (15 * SCALE) \div 100

\* tan(d degrees) * SCALE for d = 1..89, rounded up
TanTable ==
    <<
       175, 350, 525, 700, 875, 1052, 1228, 1406, 1584, 1764,
       1944, 2126, 2309, 2494, 2680, 2868, 3058, 3250, 3444, 3640,
       3839, 4041, 4245, 4453, 4664, 4878, 5096, 5318, 5544, 5774,
       6009, 6249, 6495, 6746, 7003, 7266, 7536, 7813, 8098, 8391,
       8693, 9005, 9326, 9657, 10000, 10356, 10724, 11107, 11504, 11918,
       12349, 12800, 13271, 13764, 14282, 14826, 15399, 16004, 16643, 17321,
       18041, 18808, 19627, 20504, 21446, 22461, 23559, 24751, 26051, 27475,
       29043, 30777, 32709, 34875, 37321, 40108, 43315, 47047, 51446, 56713,
       63138, 71154, 81444, 95144, 114301, 143007, 190812, 286363, 572900
    >>

\* floor of atan(r / SCALE) in degrees, 0..89
RECURSIVE AtanDegIter(_, _)
AtanDegIter(r, d) ==
    IF d < Len(TanTable) /\ TanTable[d + 1] <= r THEN AtanDegIter(r, d + 1) ELSE d

\* floor of |degrees(atan2(dx, dy))|: the angle of (dx, dy) from the +y axis, 0..180
RotationDegrees(dx, dy) ==
    IF dy > 0 THEN AtanDegIter((Abs(dx) * SCALE) \div dy, 0)
    ELSE IF dy = 0 THEN (IF dx = 0 THEN 0 ELSE 90)
    ELSE IF dx = 0 THEN 180
    ELSE IF Abs(dx) = -dy THEN 135
    ELSE 179 - AtanDegIter((Abs(dx) * SCALE) \div (-dy), 0)

\* pose_quality = 1 - rotation_degrees / 90 (quality_validator.py line 134)
pose_quality_of(rotation_degrees) == SCALE - (rotation_degrees * SCALE) \div 90

check_head_pose(landmarks, image_width, image_height) ==
    LET nose_tip == landmarks[1]
        forehead == landmarks[10]
        left_cheek == landmarks[234]
        right_cheek == landmarks[454]
        centerline_dx == nose_tip.x - forehead.x
        centerline_dy == nose_tip.y - forehead.y
        rotation_degrees == RotationDegrees(centerline_dx, centerline_dy)
        \* nose_offset and face_width, both doubled; the quotient of the two
        \* pixel lengths does not depend on image_width, their guard does
        nose_offset_2 == Abs(2 * nose_tip.x - (left_cheek.x + right_cheek.x))
        face_width == Abs(right_cheek.x - left_cheek.x)
        asymmetry == IF face_width * image_width > 0
                     THEN Divide(nose_offset_2, 2 * face_width)
                     ELSE NoDivision(0)
        depth_asymmetry == Abs(left_cheek.z - right_cheek.z)
    IN  [ is_frontal |-> /\ rotation_degrees < MAX_HEAD_ROTATION_DEGREES
                         /\ asymmetry.val < (15 * SCALE) \div 100
                         /\ depth_asymmetry < (5 * SCALE) \div 100,
          rotation_degrees |-> rotation_degrees,
          asymmetry_ratio  |-> asymmetry.val,
          depth_asymmetry  |-> depth_asymmetry,
          pose_quality     |-> pose_quality_of(rotation_degrees),
          raised           |-> asymmetry.raised ]

\* the smile tested before the mouth opening
expression_type_of_smile_first(mouth_aspect_ratio, is_smiling, brow_distance_2) ==
    IF is_smiling THEN "smiling"
    ELSE IF mouth_aspect_ratio > MAX_EXPRESSION_THRESHOLD THEN "mouth_open"
    ELSE IF brow_distance_2 > 2 * ((8 * SCALE) \div 100) THEN "eyebrows_raised"
    ELSE "neutral"

\* the if/elif chain of lines 176-182; brow_distance_2 is twice the average
\* brow distance
expression_type_of(mouth_aspect_ratio, is_smiling, brow_distance_2) ==
    IF mouth_aspect_ratio > MAX_EXPRESSION_THRESHOLD THEN "mouth_open"
    ELSE IF is_smiling THEN "smiling"
    ELSE IF brow_distance_2 > 2 * ((8 * SCALE) \div 100) THEN "eyebrows_raised"
    ELSE "neutral"

check_facial_expression(landmarks) ==
    LET upper_lip_center == landmarks[13]
        lower_lip_center == landmarks[14]
        mouth_left == landmarks[61]
        mouth_right == landmarks[291]
        mouth_height == Abs(upper_lip_center.y - lower_lip_center.y)
        mouth_width == Abs(mouth_left.x - mouth_right.x)
        mar == IF mouth_width > 0 THEN Divide(mouth_height, mouth_width)
                                  ELSE NoDivision(0)
        \* twice the lip line y
        lip_line_2y == upper_lip_center.y + lower_lip_center.y
        is_smiling == 2 * mouth_left.y < lip_line_2y /\ 2 * mouth_right.y < lip_line_2y
        \* twice the average brow distance
        brow_distance_2 == Abs(landmarks[55].y - landmarks[159].y)
                           + Abs(landmarks[285].y - landmarks[386].y)
        expression_type == expression_type_of(mar.val, is_smiling, brow_distance_2)
    IN  [ is_neutral |-> expression_type = "neutral",
          expression_type |-> expression_type,
          mouth_aspect_ratio |-> mar.val,
          is_smiling |-> is_smiling,
          eyebrow_distance |-> brow_distance_2 \div 2,
          expression_confidence |-> IF expression_type = "neutral" THEN SCALE
                                    ELSE SCALE \div 2,
          raised |-> mar.raised ]

RECURSIVE CountLow(_)
CountLow(confidences) ==
    IF confidences = <<>> THEN 0
    ELSE (IF Head(confidences) < MIN_LANDMARK_CONFIDENCE THEN 1 ELSE 0)
         + CountLow(Tail(confidences))

check_landmark_confidence(confidences) ==
    IF confidences = <<>>
    THEN [ low_confidence_count |-> 0, confidence_quality |-> SCALE ]
    ELSE [ low_confidence_count |-> CountLow(confidences),
           confidence_quality |->
               SCALE - (CountLow(confidences) * SCALE) \div Len(confidences) ]

\* the sub-scores averaged: pose, expression and, when present, confidence
calculate_overall_quality(scores) == SumSeq(scores) \div Len(scores)

\* the warning count left out
is_acceptable_by_score(overall_quality, warnings) ==
    overall_quality >= (6 * SCALE) \div 10

\* is_acceptable (quality_validator.py line 75)
is_acceptable_of(overall_quality, warnings) ==
    overall_quality >= (6 * SCALE) \div 10 /\ Len(warnings) <= 2

\* the landmark warning also appended when no confidences were supplied
warnings_of_unsupplied_warned(pose_result, expression_result, supplied, confidence_result) ==
    (IF ~pose_result.is_frontal THEN <<"head_pose">> ELSE <<>>)
    \o (IF ~expression_result.is_neutral THEN <<"expression">> ELSE <<>>)
    \o (IF ~supplied \/ confidence_result.low_confidence_count > 0
        THEN <<"landmark_confidence">> ELSE <<>>)

\* the warnings list, each message named by the check that appends it
\* (quality_validator.py lines 50-66)
warnings_of(pose_result, expression_result, supplied, confidence_result) ==
    (IF ~pose_result.is_frontal THEN <<"head_pose">> ELSE <<>>)
    \o (IF ~expression_result.is_neutral THEN <<"expression">> ELSE <<>>)
    \o (IF supplied /\ confidence_result.low_confidence_count > 0
        THEN <<"landmark_confidence">> ELSE <<>>)

validate_all(landmarks, image_width, image_height, landmark_confidences) ==
    LET pose_result == check_head_pose(landmarks, image_width, image_height)
        expression_result == check_facial_expression(landmarks)
        supplied == landmark_confidences # <<>>
        confidence_result == check_landmark_confidence(landmark_confidences)
        warnings == warnings_of(pose_result, expression_result, supplied,
                                confidence_result)
        scores == <<pose_result.pose_quality, expression_result.expression_confidence>>
                  \o (IF supplied THEN <<confidence_result.confidence_quality>> ELSE <<>>)
        overall_quality == calculate_overall_quality(scores)
    IN  [ quality_score |-> overall_quality,
          head_pose     |-> pose_result,
          expression    |-> expression_result,
          has_landmark_confidence |-> supplied,
          landmark_confidence |-> confidence_result,
          warnings      |-> warnings,
          is_acceptable |-> is_acceptable_of(overall_quality, warnings),
          raised        |-> pose_result.raised \/ expression_result.raised ]

(***************************************************************************)
(* BoundingBoxCalculator                                                   *)
(***************************************************************************)
BOX_RIGHT_EYE_LANDMARKS ==
    <<33, 7, 163, 144, 145, 153, 154, 155, 133, 173, 157, 158, 159, 160, 161, 246>>
BOX_LEFT_EYE_LANDMARKS ==
    <<263, 249, 390, 373, 374, 380, 381, 382, 362, 398, 384, 385, 386, 387, 388, 466>>
BOX_NOSE_LANDMARKS ==
    <<1, 98, 327, 129, 358, 168, 219, 439, 2, 94, 19, 1, 4, 5, 195, 197>>
BOX_LIP_LANDMARKS ==
    <<61, 146, 91, 181, 84, 17, 314, 405, 321, 375, 291, 185, 40, 39, 37, 0, 267,
      269, 270, 409>>
FACE_CONTOUR_LANDMARKS ==
    <<10, 338, 297, 332, 284, 251, 389, 356, 454, 323, 361, 288,
      397, 365, 379, 378, 400, 377, 152, 148, 176, 149, 150, 136,
      172, 58, 132, 93, 234, 127, 162, 21, 54, 103, 67, 109>>

BoxGroups ==
    [ face |-> FACE_CONTOUR_LANDMARKS, right_eye |-> BOX_RIGHT_EYE_LANDMARKS,
      left_eye |-> BOX_LEFT_EYE_LANDMARKS, nose |-> BOX_NOSE_LANDMARKS,
      lips |-> BOX_LIP_LANDMARKS ]

SeqSet(s) == {s[i] : i \in DOMAIN s}

SetMin(S) == CHOOSE v \in S : \A u \in S : v <= u

SetMax(S) == CHOOSE v \in S : \A u \in S : v >= u

\* the padding added to the origin instead of subtracted
padded_box_inward(min_x, max_x, min_y, max_y, limit_w, limit_h, padding_percent) ==
    LET width == max_x - min_x
        height == max_y - min_y
        padding_x == Mul(width, padding_percent)
        padding_y == Mul(height, padding_percent)
    IN  [ x      |-> Max2(0, min_x + padding_x),
          y      |-> Max2(0, min_y + padding_y),
          width  |-> Min2(limit_w, width + 2 * padding_x),
          height |-> Min2(limit_h, height + 2 * padding_y) ]

\* the padded box before the conversion to pixels (lines 116-123)
padded_box(min_x, max_x, min_y, max_y, limit_w, limit_h, padding_percent) ==
    LET width == max_x - min_x
        height == max_y - min_y
        padding_x == Mul(width, padding_percent)
        padding_y == Mul(height, padding_percent)
    IN  [ x      |-> Max2(0, min_x - padding_x),
          y      |-> Max2(0, min_y - padding_y),
          width  |-> Min2(limit_w, width + 2 * padding_x),
          height |-> Min2(limit_h, height + 2 * padding_y) ]

\* int(v * size) for a fixed-point v >= 0
to_pixels(v, size) == (v * size) \div SCALE

calculate_box(landmarks, landmark_indices, image_width, image_height, normalize, padding_percent) ==
    LET present == {i \in SeqSet(landmark_indices) : i \in DOMAIN landmarks}
        xs == {landmarks[i].x : i \in present}
        ys == {landmarks[i].y : i \in present}
        b == padded_box(SetMin(xs), SetMax(xs), SetMin(ys), SetMax(ys),
                        IF normalize THEN SCALE ELSE image_width * SCALE,
                        IF normalize THEN SCALE ELSE image_height * SCALE,
                        padding_percent)
    IN  IF present = {}
        THEN [x |-> 0, y |-> 0, width |-> 0, height |-> 0, normalized |-> normalize]
        ELSE IF normalize
        THEN [ x |-> b.x, y |-> b.y, width |-> b.width, height |-> b.height,
               normalized |-> TRUE ]
        ELSE [ x |-> to_pixels(b.x, image_width), y |-> to_pixels(b.y, image_height),
               width |-> to_pixels(b.width, image_width),
               height |-> to_pixels(b.height, image_height),
               normalized |-> FALSE ]

calculate_all_boxes(landmarks, image_width, image_height, normalize, padding_percent) ==
    [ g \in DOMAIN BoxGroups |->
        calculate_box(landmarks, BoxGroups[g], image_width, image_height,
                      normalize, padding_percent) ]

\* round(v * size) instead of int(v * size)
convert_to_pixel_coords_rounded(box, image_width, image_height) ==
    IF ~box.normalized THEN box
    ELSE [ x |-> (box.x * image_width + SCALE \div 2) \div SCALE,
           y |-> (box.y * image_height + SCALE \div 2) \div SCALE,
           width |-> (box.width * image_width + SCALE \div 2) \div SCALE,
           height |-> (box.height * image_height + SCALE \div 2) \div SCALE,
           normalized |-> FALSE ]

convert_to_pixel_coords(box, image_width, image_height) ==
    IF ~box.normalized THEN box
    ELSE [ x |-> to_pixels(box.x, image_width),
           y |-> to_pixels(box.y, image_height),
           width |-> to_pixels(box.width, image_width),
           height |-> to_pixels(box.height, image_height),
           normalized |-> FALSE ]

(***************************************************************************)
(* State: one analysis call and what it has computed so far                *)
(***************************************************************************)
VARIABLES
    landmarks,     \* the caller's landmark list: index -> [x, y, z]
    image,         \* [width, height] of the image in pixels
    confidences,   \* the landmark confidences handed to validate_all
    padding,       \* BoundingBoxCalculator.padding_percent
    pc,            \* the next step of the call
    quality,       \* result of validate_all
    eyes,          \* result of classify_eyes
    prev_eyes,     \* the result of the classify_eyes call before the last one
    nose,          \* result of classify_nose
    lips,          \* result of classify_lips
    boxes,         \* result of calculate_all_boxes
    pixel_boxes,   \* result of convert_to_pixel_coords on each box
    fn_call,       \* a direct call of a decision function: arguments and result
    summary,       \* result of create_summary
    result,        \* what analyze_image returns
    shared,        \* what every invocation reads: instance attributes and tables
    runs           \* concurrent invocations: each one's landmarks, step and results

vars == <<landmarks, image, confidences, padding, pc, quality, eyes, prev_eyes,
          nose, lips, boxes, pixel_boxes, fn_call, summary, result, shared, runs>>

inputs == <<landmarks, image, confidences, padding>>

None == [none |-> TRUE]

\* the first n values of a list of candidate values
Pick(vals, n) == {vals[i] : i \in 1..Min2(n, Len(vals))}

(***************************************************************************)
(* Landmark sets                                                           *)
(***************************************************************************)
P(px, py, pz) == [x |-> px, y |-> py, z |-> pz]

Idx ==
    UNION {SeqSet(BoxGroups[g]) : g \in DOMAIN BoxGroups}
    \cup SeqSet(LIP_LANDMARKS.upper_outer_lip) \cup SeqSet(LIP_LANDMARKS.lower_outer_lip)
    \cup {468, 473, 1, 98, 327, 129, 358, 168, 219, 439, 234, 454, 127, 356,
          61, 291, 37, 13, 14, 17, 152, 10, 55, 285, 159, 386}

\* every landmark at the centre of the image
Coincident == [i \in Idx |-> P(SCALE \div 2, SCALE \div 2, 0)]

\* the landmarks of one eye: the inner corner at (inner_x, 4000), the outer
\* corner e.w further out and e.tilt higher, the top centre e.open above the
\* corner line, the rest of the upper lid e.sag below the top centre, the
\* lower lid on the corner line, the upper lid at depth e.zu
EyePoints(tab, extra, inner_x, dir, e) ==
    LET cy == 4000
        mid == inner_x + dir * (e.w \div 2)
    IN  [ i \in SeqSet(tab.upper_lid) \cup SeqSet(tab.lower_lid)
                \cup {tab.iris_center} \cup extra |->
            IF i = tab.outer_corner THEN P(inner_x + dir * e.w, cy - e.tilt, e.zu)
            ELSE IF i = tab.inner_corner THEN P(inner_x, cy, 0)
            ELSE IF i = tab.top_center THEN P(mid, cy - e.open, e.zu)
            ELSE IF i \in SeqSet(tab.upper_lid) THEN P(mid, cy - e.open + e.sag, e.zu)
            ELSE IF i \in SeqSet(tab.lower_lid) THEN P(mid, cy, 0)
            ELSE P(mid, cy - e.open \div 2, 0) ]

BaseEye == [w |-> 1500, open |-> 300, sag |-> 100, tilt |-> 0, zu |-> 0]

\* the rest of the face: cheeks g.fw apart, nose, mouth g.mw wide, brows
BaseGeom ==
    [ fw |-> 6000, cheek_lz |-> 0, cheek_rz |-> 0,
      forehead_x |-> 5000, forehead_y |-> 1500, chin_y |-> 8500,
      nose_x |-> 5000, ala |-> 1600, nostril |-> 1400, inner |-> 1200,
      tip_z |-> 0, bridge_z |-> 0,
      mw |-> 2000, upper |-> 130, lower |-> 180, gap |-> 40, corner_up |-> 0,
      lip_z |-> 0, brow_y |-> 3300 ]

GeomPoints(g) ==
    LET cx == 5000
        my == 7000
    IN  (234 :> P(cx - g.fw \div 2, 5000, g.cheek_lz))
        @@ (454 :> P(cx - g.fw \div 2 + g.fw, 5000, g.cheek_rz))
        @@ (10 :> P(g.forehead_x, g.forehead_y, 0))
        @@ (152 :> P(cx, g.chin_y, 0))
        @@ (1 :> P(g.nose_x, 5500, g.tip_z))
        @@ (168 :> P(cx, 4000, g.bridge_z))
        @@ (129 :> P(cx - g.ala \div 2, 5600, 0))
        @@ (358 :> P(cx - g.ala \div 2 + g.ala, 5600, 0))
        @@ (98 :> P(cx - g.nostril \div 2, 5700, 0))
        @@ (327 :> P(cx - g.nostril \div 2 + g.nostril, 5700, 0))
        @@ (219 :> P(cx - g.inner \div 2, 5500, 0))
        @@ (439 :> P(cx - g.inner \div 2 + g.inner, 5500, 0))
        @@ (61 :> P(cx - g.mw \div 2, my - g.corner_up, 0))
        @@ (291 :> P(cx - g.mw \div 2 + g.mw, my - g.corner_up, 0))
        @@ (37 :> P(cx, my - g.gap \div 2 - g.upper, g.lip_z))
        @@ (13 :> P(cx, my - g.gap \div 2, 0))
        @@ (14 :> P(cx, my - g.gap \div 2 + g.gap, 0))
        @@ (17 :> P(cx, my - g.gap \div 2 + g.gap + g.lower, g.lip_z))
        @@ (55 :> P(4000, g.brow_y, 0))
        @@ (285 :> P(6000, g.brow_y, 0))

Face(right_eye, left_eye, g) ==
    EyePoints(RIGHT_EYE_LANDMARKS, {173, 157, 158}, 4200, -1, right_eye)
    @@ EyePoints(LEFT_EYE_LANDMARKS, {398, 384, 385}, 5800, 1, left_eye)
    @@ GeomPoints(g)
    @@ Coincident

\* x -> 1 - x on every landmark
MirrorX(lms) == [i \in DOMAIN lms |-> P(SCALE - lms[i].x, lms[i].y, lms[i].z)]

(***************************************************************************)
(* The steps of FaceAnalyzer.analyze_image after landmark extraction       *)
(***************************************************************************)
NoResults ==
    /\ quality = None /\ eyes = None /\ prev_eyes = None /\ nose = None
    /\ lips = None /\ boxes = None /\ pixel_boxes = None /\ fn_call = None
    /\ summary = None /\ result = None /\ shared = None /\ runs = None

ValidateAll ==
    /\ pc = "validate"
    /\ quality' = validate_all(landmarks, image.width, image.height, confidences)
    /\ pc' = "eyes"
    /\ UNCHANGED <<inputs, eyes, prev_eyes, nose, lips, boxes, pixel_boxes, fn_call, summary, result,
                   shared, runs>>

ClassifyEyes ==
    /\ pc = "eyes"
    /\ eyes' = classify_eyes(landmarks)
    /\ pc' = "nose"
    /\ UNCHANGED <<inputs, quality, prev_eyes, nose, lips, boxes, pixel_boxes, fn_call, summary, result,
                   shared, runs>>

ClassifyNose ==
    /\ pc = "nose"
    /\ nose' = classify_nose(landmarks)
    /\ pc' = "lips"
    /\ UNCHANGED <<inputs, quality, eyes, prev_eyes, lips, boxes, pixel_boxes, fn_call, summary, result,
                   shared, runs>>

ClassifyLips ==
    /\ pc = "lips"
    /\ lips' = classify_lips(landmarks)
    /\ pc' = "boxes"
    /\ UNCHANGED <<inputs, quality, eyes, prev_eyes, nose, boxes, pixel_boxes, fn_call, summary, result,
                   shared, runs>>

CalculateAllBoxes(normalize) ==
    /\ pc = "boxes"
    /\ boxes' = calculate_all_boxes(landmarks, image.width, image.height,
                                    normalize, padding)
    /\ pc' = "done"
    /\ UNCHANGED <<inputs, quality, eyes, prev_eyes, nose, lips, pixel_boxes, fn_call, summary, result,
                   shared, runs>>

\* degenerate and near-degenerate faces: each of the five lengths a ratio
\* divides by is normal, zero, or positive and below 0.001
NLengths == 3

EyeWidths == Pick(<<1500, 0, 6, 2>>, NLengths)
EyeOpenings == Pick(<<300, 0, 8, 4>>, NLengths)
FaceWidths == Pick(<<6000, 0, 4, 2>>, NLengths)
InnerWidths == Pick(<<1200, 0, 4, 2>>, NLengths)
MouthWidths == Pick(<<2000, 0, 6, 2>>, NLengths)

Faces ==
    {Coincident} \cup
    { Face([BaseEye EXCEPT !.w = w, !.open = o, !.sag = o \div 3],
           [BaseEye EXCEPT !.w = w, !.open = o, !.sag = o \div 3],
           [BaseGeom EXCEPT !.fw = fw, !.inner = iw, !.mw = mw]) :
        w \in EyeWidths, o \in EyeOpenings, fw \in FaceWidths,
        iw \in InnerWidths, mw \in MouthWidths }

Init ==
    /\ landmarks \in Faces
    /\ image = [width |-> 640, height |-> 480]
    /\ confidences = <<>>
    /\ padding = (15 * SCALE) \div 100
    /\ pc = "validate"
    /\ NoResults

Next ==
    \/ ValidateAll
    \/ ClassifyEyes
    \/ ClassifyNose
    \/ ClassifyLips
    \/ CalculateAllBoxes(TRUE)

Spec == Init /\ [][Next]_vars

(***************************************************************************)
(* classify_eyes on faces whose eyes vary, and again on the mirrored face  *)
(***************************************************************************)
\* the caller mirrors the landmark list and classifies the eyes again
MirrorClassify ==
    /\ pc = "nose"
    /\ eyes # None
    /\ prev_eyes = None
    /\ landmarks' = MirrorX(landmarks)
    /\ prev_eyes' = eyes
    /\ eyes' = classify_eyes(landmarks')
    /\ UNCHANGED <<image, confidences, padding, pc, quality, nose, lips, boxes,
                   pixel_boxes, fn_call, summary, result,
                   shared, runs>>

NTilt == 4
NDepth == 3
NSag == 3
NWidth == 2

\* inner-corner y minus outer-corner y, per eye
Tilts == Pick(<<0, 400, -400, 100, -100, 20>>, NTilt)
\* depth of the upper lid relative to the lower lid, per eye
LidDepths == Pick(<<0, -150, -400, 150, -250>>, NDepth)
\* how far the upper lid lies below its top centre
Sags == Pick(<<100, 0, 300, 200>>, NSag)
EyeFaceWidths == Pick(<<1500, 300, 600>>, NWidth)

EyeFaces ==
    { Face([BaseEye EXCEPT !.w = w, !.sag = sg, !.tilt = tr, !.zu = zr],
           [BaseEye EXCEPT !.w = w, !.sag = sg, !.tilt = tl, !.zu = zl],
           BaseGeom) :
        w \in EyeFaceWidths, sg \in Sags, tr \in Tilts, tl \in Tilts,
        zr \in LidDepths, zl \in LidDepths }

InitEyes ==
    /\ landmarks \in EyeFaces
    /\ image = [width |-> 640, height |-> 480]
    /\ confidences = <<>>
    /\ padding = (15 * SCALE) \div 100
    /\ pc = "eyes"
    /\ NoResults

NextEyes ==
    \/ ClassifyEyes
    \/ MirrorClassify

SpecEyes == InitEyes /\ [][NextEyes]_vars

InUnit(v) == 0 <= v /\ v <= SCALE

\* C1: classify_eyes returns an overall confidence and confidence_scores
\* values that all lie in [0,1], whatever branch decided the shape.
C1_EyeConfidenceInUnitRange ==
    eyes # None =>
        /\ InUnit(eyes.confidence)
        /\ \A k \in DOMAIN eyes.confidence_scores : InUnit(eyes.confidence_scores[k])

\* C3 as stated: mirroring x negates the averaged corner tilt, swaps Upturned
\* with Downturned and keeps every other shape.
C3_MirrorSwapsDirection ==
    prev_eyes # None =>
        /\ eyes.details.corner_angle = -prev_eyes.details.corner_angle
        /\ prev_eyes.eye_shape = "Upturned" => eyes.eye_shape = "Downturned"
        /\ prev_eyes.eye_shape = "Downturned" => eyes.eye_shape = "Upturned"
        /\ prev_eyes.eye_shape \in {"Monolid", "Hooded", "Round", "Almond"}
               => eyes.eye_shape = prev_eyes.eye_shape

\* C3 amended: mirroring x leaves the averaged corner tilt, the primary shape
\* and the secondary features as they were; Upturned stays Upturned and
\* Downturned stays Downturned.
C3_MirrorKeepsDirection ==
    prev_eyes # None =>
        /\ eyes.details.corner_angle = prev_eyes.details.corner_angle
        /\ eyes.eye_shape = prev_eyes.eye_shape
        /\ eyes.secondary_features = prev_eyes.secondary_features

C3_Witness ==
    /\ prev_eyes # None
    /\ prev_eyes.eye_shape = "Upturned"
    /\ prev_eyes.details.corner_angle > 3 * SCALE
    /\ landmarks[33].x > landmarks[133].x

(***************************************************************************)
(* Direct calls of the two three-bucket decision functions                 *)
(***************************************************************************)
MaxRatioSteps == 100
StabilityLevels == 4

RatioStep == SCALE \div 200

\* ratios 0, 0.005, ... and two ratios a near-zero denominator produces
Ratios == {k * RatioStep : k \in 0..MaxRatioSteps} \cup {SCALE, 100 * SCALE}

\* measurement_stability in (0,1]
Stabilities ==
    {(SCALE * j) \div StabilityLevels : j \in 1..StabilityLevels}
        \cup {1, (95 * SCALE) \div 100}

DetermineNoseWidth ==
    /\ pc = "call"
    /\ \E ratio \in Ratios, st \in Stabilities, ip \in BOOLEAN, hb \in BOOLEAN :
         LET depth == [is_prominent |-> ip, has_high_bridge |-> hb]
         IN  fn_call' = [ fn |-> "determine_nose_width", ratio |-> ratio,
                          measurement_stability |-> st, depth_metrics |-> depth,
                          result |-> determine_nose_width(ratio, st, depth) ]
    /\ pc' = "returned"
    /\ UNCHANGED <<inputs, quality, eyes, prev_eyes, nose, lips, boxes, pixel_boxes, summary, result,
                   shared, runs>>

DetermineLipFullness ==
    /\ pc = "call"
    /\ \E ratio \in Ratios, st \in Stabilities, hf \in BOOLEAN :
         LET depth == [has_fullness |-> hf]
         IN  fn_call' = [ fn |-> "determine_lip_fullness", ratio |-> ratio,
                          measurement_stability |-> st, depth_metrics |-> depth,
                          result |-> determine_lip_fullness(ratio, ratio \div 2,
                                         ratio - ratio \div 2, st, depth) ]
    /\ pc' = "returned"
    /\ UNCHANGED <<inputs, quality, eyes, prev_eyes, nose, lips, boxes, pixel_boxes, summary, result,
                   shared, runs>>

InitFn ==
    /\ landmarks = Coincident
    /\ image = [width |-> 640, height |-> 480]
    /\ confidences = <<>>
    /\ padding = (15 * SCALE) \div 100
    /\ pc = "call"
    /\ NoResults

NextFn ==
    \/ DetermineNoseWidth
    \/ DetermineLipFullness

SpecFn == InitFn /\ [][NextFn]_vars

\* C2: the nose and lip confidences lie in [0,1] and never exceed 0.95, also
\* after the 3D boost.
C2_BucketConfidenceCapped ==
    fn_call # None =>
        /\ 0 <= fn_call.result.confidence
        /\ fn_call.result.confidence <= (95 * SCALE) \div 100

C2_Witness ==
    /\ fn_call # None
    /\ fn_call.fn = "determine_nose_width"
    /\ fn_call.result.category = "wide"
    /\ fn_call.depth_metrics.is_prominent
    /\ fn_call.measurement_stability = SCALE
    /\ fn_call.ratio >= SCALE \div 2
    /\ fn_call.result.confidence = (95 * SCALE) \div 100

(***************************************************************************)
(* calculate_all_boxes and convert_to_pixel_coords                         *)
(***************************************************************************)
ConvertToPixel ==
    /\ pc = "done"
    /\ boxes # None
    /\ pixel_boxes = None
    /\ pixel_boxes' = [ g \in DOMAIN boxes |->
                          convert_to_pixel_coords(boxes[g], image.width, image.height) ]
    /\ UNCHANGED <<inputs, pc, quality, eyes, prev_eyes, nose, lips, boxes, fn_call, summary, result,
                   shared, runs>>

NPadding == 4
NImages == 3
NShifts == 3

Paddings == Pick(<<(15 * SCALE) \div 100, 0, SCALE \div 10, SCALE, 3 * SCALE>>, NPadding)
Images == Pick(<< [width |-> 640, height |-> 480], [width |-> 10, height |-> 7],
                  [width |-> 1, height |-> 1], [width |-> 1920, height |-> 1080],
                  [width |-> 3, height |-> 1000] >>, NImages)
Shifts == Pick(<<0, -4000, 4000, 2500, -1500>>, NShifts)

Clip(v) == Max2(0, Min2(SCALE, v))

\* the face moved by (dx, dy): a landmark that leaves the frame is either
\* reported on the border or reported where it is, outside [0,1]
Translate(lms, dx, dy, clip) ==
    [i \in DOMAIN lms |->
        IF clip THEN P(Clip(lms[i].x + dx), Clip(lms[i].y + dy), lms[i].z)
                ELSE P(lms[i].x + dx, lms[i].y + dy, lms[i].z)]

BoxFaces ==
    { Translate(Face(BaseEye, BaseEye,
                     [BaseGeom EXCEPT !.fw = fw, !.forehead_y = fy, !.chin_y = cy]),
                dx, 0, clip) :
        fw \in {6000, 10000, 3000}, fy \in {1500, 0}, cy \in {8500, 10000},
        dx \in Shifts, clip \in BOOLEAN }

InitBoxes ==
    /\ landmarks \in BoxFaces
    /\ image \in Images
    /\ confidences = <<>>
    /\ padding \in Paddings
    /\ pc = "boxes"
    /\ NoResults

NextBoxes ==
    \/ \E normalize \in BOOLEAN : CalculateAllBoxes(normalize)
    \/ ConvertToPixel

SpecBoxes == InitBoxes /\ [][NextBoxes]_vars

\* every coordinate of every landmark lies in [0,1]
InFrame == \A i \in DOMAIN landmarks : InUnit(landmarks[i].x) /\ InUnit(landmarks[i].y)

\* box g holds every landmark of its own index group
Contains(g) ==
    \A i \in SeqSet(BoxGroups[g]) :
        /\ boxes[g].x <= landmarks[i].x
        /\ landmarks[i].x <= boxes[g].x + boxes[g].width
        /\ boxes[g].y <= landmarks[i].y
        /\ landmarks[i].y <= boxes[g].y + boxes[g].height

\* C4 as stated: for every landmark set, each box contains every landmark
\* of its own index group.
C4_BoxContainsLandmarks ==
    (boxes # None /\ boxes.face.normalized) => \A g \in DOMAIN BoxGroups : Contains(g)

\* C4 amended: when every landmark coordinate lies in [0,1], each box
\* contains every landmark of its own index group, also when the padded box
\* is cut off at a border.
C4_BoxContainsInFrameLandmarks ==
    (boxes # None /\ boxes.face.normalized /\ InFrame) =>
        \A g \in DOMAIN BoxGroups : Contains(g)

\* a padded eye box cut off at the left border
C4_Witness ==
    /\ boxes # None
    /\ InFrame
    /\ boxes.right_eye.normalized
    /\ padding > 0
    /\ boxes.right_eye.x = 0
    /\ boxes.right_eye.width > 0
    /\ boxes.right_eye.width < SCALE
    /\ landmarks[133].x > 0

\* C5: for landmarks with coordinates in [0,1], a normalized box stays in
\* the unit square and a pixel box stays within the image.
C5_BoxWithinBounds ==
    (boxes # None /\ InFrame) =>
        \A g \in DOMAIN boxes :
            IF boxes[g].normalized
            THEN /\ boxes[g].x >= 0 /\ boxes[g].y >= 0
                 /\ boxes[g].x + boxes[g].width <= SCALE
                 /\ boxes[g].y + boxes[g].height <= SCALE
            ELSE /\ boxes[g].x + boxes[g].width <= image.width
                 /\ boxes[g].y + boxes[g].height <= image.height

\* v converted to pixels and divided back by the image size
BackToNormalized(px, size) == (px * SCALE) \div size

\* C6 as stated: pixel conversion followed by the division by the image
\* size gives back x, y, width and height up to rounding (one unit of 1/SCALE).
C6_RoundTripExact ==
    pixel_boxes # None =>
        \A g \in DOMAIN boxes : boxes[g].normalized =>
            /\ Abs(BackToNormalized(pixel_boxes[g].x, image.width) - boxes[g].x) <= 1
            /\ Abs(BackToNormalized(pixel_boxes[g].y, image.height) - boxes[g].y) <= 1
            /\ Abs(BackToNormalized(pixel_boxes[g].width, image.width)
                   - boxes[g].width) <= 1
            /\ Abs(BackToNormalized(pixel_boxes[g].height, image.height)
                   - boxes[g].height) <= 1

\* 0 <= v - px / size < 1 / size
WithinOnePixel(v, px, size) == px * SCALE <= v * size /\ v * size < (px + 1) * SCALE

\* C6 amended: the round trip loses less than one pixel and never gains:
\* each of x, y, width, height comes back as a value in (v - 1/size, v].
C6_RoundTripWithinPixel ==
    pixel_boxes # None =>
        \A g \in DOMAIN boxes : boxes[g].normalized =>
            /\ ~pixel_boxes[g].normalized
            /\ WithinOnePixel(boxes[g].x, pixel_boxes[g].x, image.width)
            /\ WithinOnePixel(boxes[g].y, pixel_boxes[g].y, image.height)
            /\ WithinOnePixel(boxes[g].width, pixel_boxes[g].width, image.width)
            /\ WithinOnePixel(boxes[g].height, pixel_boxes[g].height, image.height)

\* a conversion that cuts off more than half a pixel
C6_Witness ==
    /\ pixel_boxes # None
    /\ boxes.face.normalized
    /\ ~pixel_boxes.face.normalized
    /\ (boxes.face.width * image.width) % SCALE > SCALE \div 2

(***************************************************************************)
(* validate_all on faces whose pose and expression vary                    *)
(***************************************************************************)
NPose == 5
MaxConfidences == 2

\* forehead positions: the nose-tip to forehead line at 0, 180, 36, 90 and
\* 126 degrees from vertical
Foreheads == Pick(<< <<5000, 1500>>, <<5000, 9500>>, <<2000, 1500>>, <<1000, 5500>>,
                     <<1000, 8500>>, <<4500, 1500>>, <<5600, 3000>> >>, NPose)

PoseFaces ==
    { Face(BaseEye, BaseEye,
           [BaseGeom EXCEPT !.forehead_x = f[1], !.forehead_y = f[2], !.nose_x = nx,
                            !.cheek_rz = cz, !.gap = gap, !.corner_up = up,
                            !.brow_y = by]) :
        f \in Foreheads, nx \in {5000, 6500}, cz \in {0, 600}, gap \in {40, 400},
        up \in {0, 100}, by \in {3300, 2500} }

ConfidenceLists ==
    UNION { [1..n -> {(3 * SCALE) \div 10, (9 * SCALE) \div 10}] : n \in 0..MaxConfidences }

InitQuality ==
    /\ landmarks \in PoseFaces
    /\ image = [width |-> 640, height |-> 480]
    /\ confidences \in ConfidenceLists
    /\ padding = (15 * SCALE) \div 100
    /\ pc = "validate"
    /\ NoResults

NextQuality == ValidateAll

SpecQuality == InitQuality /\ [][NextQuality]_vars

\* the sub-scores validate_all has available
SubScores ==
    <<quality.head_pose.pose_quality, quality.expression.expression_confidence>>
    \o (IF confidences # <<>> THEN <<quality.landmark_confidence.confidence_quality>>
                              ELSE <<>>)

\* C7: is_acceptable is TRUE exactly when the mean of the available
\* sub-scores is at least 0.6 and there are at most two warnings; with more
\* than two warnings it is FALSE whatever the score.
C7_AcceptableIffScoreAndWarnings ==
    quality # None =>
        /\ quality.quality_score = SumSeq(SubScores) \div Len(SubScores)
        /\ (quality.is_acceptable <=>
               (quality.quality_score >= (6 * SCALE) \div 10 /\ Len(quality.warnings) <= 2))
        /\ (Len(quality.warnings) > 2 => ~quality.is_acceptable)

C7_Witness ==
    /\ quality # None
    /\ Len(quality.warnings) = 3
    /\ quality.quality_score >= (6 * SCALE) \div 10
    /\ ~quality.is_acceptable

\* C8: quality_score and pose_quality lie in [0,1].
C8_QualityInUnitRange ==
    quality # None =>
        /\ InUnit(quality.head_pose.pose_quality)
        /\ InUnit(quality.quality_score)

(***************************************************************************)
(* Degenerate geometry in analyze_image                                    *)
(***************************************************************************)
EyeShapes == {"Almond", "Round", "Monolid", "Hooded", "Upturned", "Downturned"}

EyeFallbacks(metrics, tab) ==
    /\ Dist(landmarks, tab.inner_corner, tab.outer_corner) < EYE_EPS
           => metrics.width = EYE_EPS
    /\ Abs(landmarks[tab.bottom_center].y - landmarks[tab.top_center].y) <= EYE_EPS
           => metrics.eyelid_coverage = SCALE \div 2
    /\ InUnit(metrics.aspect_ratio)

\* C9: no classifier and no quality check divides by zero, whatever lengths
\* vanish, and each returns its fallback value and a category of its enum.
C9_DegenerateNeverRaises ==
    /\ eyes # None =>
         /\ ~eyes.raised
         /\ eyes.eye_shape \in EyeShapes
         /\ EyeFallbacks(eyes.metrics.right_eye, RIGHT_EYE_LANDMARKS)
         /\ EyeFallbacks(eyes.metrics.left_eye, LEFT_EYE_LANDMARKS)
    /\ nose # None =>
         /\ ~nose.raised
         /\ nose.nose_width \in {"narrow", "medium", "wide"}
         /\ Dist(landmarks, 234, 454) = 0 => nose.details.nose_to_face_ratio = 0
         /\ Dist(landmarks, 219, 439) = 0 => nose.details.nostril_flare = 0
    /\ lips # None =>
         /\ ~lips.raised
         /\ lips.lip_fullness \in {"thin", "medium", "full"}
         /\ Dist(landmarks, 61, 291) = 0 =>
               /\ lips.measurements.lip_height_to_width_ratio = 0
               /\ lips.measurements.upper_lip_ratio = 0
               /\ lips.measurements.lower_lip_ratio = 0
    /\ quality # None =>
         /\ ~quality.raised
         /\ landmarks[61].x = landmarks[291].x
               => quality.expression.mouth_aspect_ratio = 0
         /\ landmarks[234].x = landmarks[454].x
               => quality.head_pose.asymmetry_ratio = 0

\* the whole pipeline has run on the face with all landmarks coincident
C9_Witness ==
    /\ pc = "done"
    /\ landmarks = Coincident
    /\ nose.details.nose_to_face_ratio = 0
    /\ lips.measurements.lip_height_to_width_ratio = 0

\* the quotient by the floor 0.001 instead of by a smaller denominator
Floored(a) == (a * SCALE) \div EYE_EPS

NearZero(d) == 0 < d /\ d < EYE_EPS

\* C10: a ratio whose denominator is positive but below 0.001 is the
\* fallback value or the quotient by the floor, never the quotient by the
\* denominator itself.
C10_NearZeroDenominatorsGuarded ==
    /\ eyes # None =>
         (\A side \in {"right_eye", "left_eye"} :
             LET m == eyes.metrics[side]
                 tab == IF side = "right_eye" THEN RIGHT_EYE_LANDMARKS
                                              ELSE LEFT_EYE_LANDMARKS
             IN  NearZero(Dist(landmarks, tab.inner_corner, tab.outer_corner))
                     => m.aspect_ratio = Min2(SCALE, Floored(m.height)))
    /\ nose # None =>
         /\ NearZero(Dist(landmarks, 234, 454))
               => nose.details.nose_to_face_ratio
                      \in {0, Floored(nose.measurements.nose_width)}
         /\ NearZero(Dist(landmarks, 219, 439))
               => nose.details.nostril_flare
                      \in {0, Floored(Dist(landmarks, 129, 358) - Dist(landmarks, 219, 439))}
    /\ lips # None =>
         /\ NearZero(Dist(landmarks, 61, 291))
               => lips.measurements.lip_height_to_width_ratio
                      \in {0, Floored(lips.measurements.total_lip_height)}
    /\ quality # None =>
         /\ NearZero(Abs(landmarks[61].x - landmarks[291].x))
               => quality.expression.mouth_aspect_ratio
                      \in {0, Floored(Abs(landmarks[13].y - landmarks[14].y))}
         /\ NearZero(Abs(landmarks[234].x - landmarks[454].x))
               => quality.head_pose.asymmetry_ratio
                      \in {0, Floored(Abs(landmarks[1].x
                                          - (landmarks[234].x + landmarks[454].x) \div 2))}

(***************************************************************************)
(* Direct calls of _determine_eye_shape                                    *)
(***************************************************************************)
NCoverage == 3
NAngle == 8
NQuality == 4

ShapeAspects == {(2 * SCALE) \div 10, (4 * SCALE) \div 10, (6 * SCALE) \div 10}
ShapeCoverages == Pick(<<(5 * SCALE) \div 100, (2 * SCALE) \div 10, SCALE \div 2,
                         (11 * SCALE) \div 100>>, NCoverage)
\* corner tilts 0, 4, -4, 2, -2, 15, -0.2, 3 and -3
ShapeAngles == Pick(<<0, 4 * SCALE, -(4 * SCALE), 2 * SCALE, -(2 * SCALE), 15 * SCALE,
                      -((2 * SCALE) \div 10), 3 * SCALE, -(3 * SCALE)>>, NAngle)
ShapeDepths ==
    { [eyelid_depth_diff |-> 0, is_deep_set |-> FALSE, is_prominent |-> FALSE],
      [eyelid_depth_diff |-> -((3 * SCALE) \div 100), is_deep_set |-> TRUE,
       is_prominent |-> FALSE],
      [eyelid_depth_diff |-> -((15 * SCALE) \div 1000), is_deep_set |-> TRUE,
       is_prominent |-> FALSE] }
ShapeQualities == Pick(<<SCALE, (9 * SCALE) \div 10, (8 * SCALE) \div 10, SCALE \div 2,
                         (85 * SCALE) \div 100>>, NQuality)

DetermineEyeShape ==
    /\ pc = "call"
    /\ \E a \in ShapeAspects, c \in ShapeCoverages, t \in ShapeAngles,
          d \in ShapeDepths, q \in ShapeQualities :
         LET metrics == [ aspect_ratio |-> a, eyelid_coverage |-> c,
                          corner_angle |-> t, depth_metrics |-> d ]
         IN  fn_call' = [ fn |-> "determine_eye_shape", metrics |-> metrics,
                          measurement_quality |-> q,
                          result |-> determine_eye_shape(metrics, q) ]
    /\ pc' = "returned"
    /\ UNCHANGED <<inputs, quality, eyes, prev_eyes, nose, lips, boxes, pixel_boxes, summary, result,
                   shared, runs>>

NextShape == DetermineEyeShape

SpecShape == InitFn /\ [][NextShape]_vars

\* the call is one with eyelid_coverage 0.05
CoverageFivePercent ==
    /\ fn_call # None
    /\ fn_call.fn = "determine_eye_shape"
    /\ fn_call.metrics.eyelid_coverage = (5 * SCALE) \div 100

\* the tilt is strong enough to become the primary shape
TiltIsPrimary ==
    /\ Abs(fn_call.metrics.corner_angle) > 3 * SCALE
    /\ angle_of(fn_call.metrics.corner_angle, fn_call.measurement_quality).confidence
           > (65 * SCALE) \div 100

\* C11 as stated: with eyelid_coverage 0.05 the primary shape is Monolid and
\* the overall confidence is at least 0.75, whatever the other inputs.
C11_MonolidAlways ==
    CoverageFivePercent =>
        /\ fn_call.result.primary_shape = "Monolid"
        /\ fn_call.result.overall_confidence >= (75 * SCALE) \div 100

\* C11 amended: with eyelid_coverage 0.05 the Monolid score is
\* 0.89 * measurement_quality; Monolid is the primary shape, with that
\* confidence, unless the tilt is primary (|corner_angle| > 3 and angle
\* confidence > 0.65), and then Monolid is a secondary feature when its
\* score exceeds 0.65; so Monolid with confidence >= 0.75 needs a tilt that
\* is not primary and a measurement_quality of at least 0.85.
C11_MonolidUnlessTiltedOrUnstable ==
    CoverageFivePercent =>
        LET r == fn_call.result
            score == Mul((89 * SCALE) \div 100, fn_call.measurement_quality)
        IN  /\ "Monolid" \in DOMAIN r.confidence_scores
            /\ r.confidence_scores["Monolid"] = score
            /\ ~TiltIsPrimary =>
                  /\ r.primary_shape = "Monolid"
                  /\ r.overall_confidence = score
                  /\ fn_call.measurement_quality >= (85 * SCALE) \div 100
                         => r.overall_confidence >= (75 * SCALE) \div 100
            /\ TiltIsPrimary =>
                  /\ r.primary_shape \in {"Upturned", "Downturned"}
                  /\ (score > (65 * SCALE) \div 100)
                         <=> (r.secondary_features = <<"Monolid">>)

\* Monolid is primary at measurement quality 0.9 with confidence 0.801
C11_Witness ==
    /\ CoverageFivePercent
    /\ ~TiltIsPrimary
    /\ fn_call.measurement_quality = (9 * SCALE) \div 10
    /\ fn_call.result.primary_shape = "Monolid"
    /\ fn_call.result.overall_confidence = (801 * SCALE) \div 1000

(***************************************************************************)
(* The nose and lip buckets                                                *)
(***************************************************************************)
NoseCall == fn_call # None /\ fn_call.fn = "determine_nose_width"

LipCall == fn_call # None /\ fn_call.fn = "determine_lip_fullness"

DepthFlags == [is_prominent : BOOLEAN, has_high_bridge : BOOLEAN]

\* C12 as stated: at ratio 0.30 the category is medium and the confidence
\* lies between 0.85 and 0.90, whatever the stability and the depth flags.
C12_MidpointConfidenceBand ==
    (NoseCall /\ fn_call.ratio = (30 * SCALE) \div 100) =>
        /\ fn_call.result.category = "medium"
        /\ fn_call.result.confidence >= (85 * SCALE) \div 100
        /\ fn_call.result.confidence <= (90 * SCALE) \div 100

\* C12 amended: at ratio 0.30 the category is medium for every stability
\* and depth flag, and the confidence is 0.90 * measurement_stability: at
\* most 0.90, and at least 0.85 when measurement_stability >= 0.95.
C12_MidpointConfidenceScaled ==
    (NoseCall /\ fn_call.ratio = (30 * SCALE) \div 100) =>
        /\ fn_call.result.category = "medium"
        /\ fn_call.result.confidence
               = Mul((90 * SCALE) \div 100, fn_call.measurement_stability)
        /\ fn_call.result.confidence <= (90 * SCALE) \div 100
        /\ fn_call.measurement_stability >= (95 * SCALE) \div 100
               => fn_call.result.confidence >= (85 * SCALE) \div 100

\* stability 0.95 gives 0.855
C12_Witness ==
    /\ NoseCall
    /\ fn_call.ratio = (30 * SCALE) \div 100
    /\ fn_call.measurement_stability = (95 * SCALE) \div 100
    /\ fn_call.result.category = "medium"
    /\ fn_call.result.confidence = (855 * SCALE) \div 1000

\* C13: the nose category is narrow below 0.25, medium from 0.25 to 0.35
\* with both ends, wide above 0.35, and is the same for every stability and
\* every depth flag.
C13_NoseBuckets ==
    NoseCall =>
        /\ fn_call.result.category =
               IF fn_call.ratio < (25 * SCALE) \div 100 THEN "narrow"
               ELSE IF fn_call.ratio <= (35 * SCALE) \div 100 THEN "medium"
               ELSE "wide"
        /\ \A st \in Stabilities, d \in DepthFlags :
               determine_nose_width(fn_call.ratio, st, d).category
                   = fn_call.result.category

\* the boundary 0.25 with both depth flags set
C13_Witness ==
    /\ NoseCall
    /\ fn_call.ratio = (25 * SCALE) \div 100
    /\ fn_call.depth_metrics.is_prominent
    /\ fn_call.depth_metrics.has_high_bridge
    /\ fn_call.result.category = "medium"

\* the confidence at ratio r2 with the stability and depth flags of the call
NoseConfidenceAt(r2) ==
    determine_nose_width(r2, fn_call.measurement_stability,
                         fn_call.depth_metrics).confidence

\* C14: with stability and depth flags fixed, the nose confidence does not
\* decrease as the ratio falls below 0.25, rises above 0.35, or moves inside
\* medium toward the midpoint 0.30.
C14_NoseConfidenceMonotone ==
    NoseCall =>
        \A r2 \in Ratios :
            LET r == fn_call.ratio
                mid == (30 * SCALE) \div 100
                further ==
                    \/ r2 <= r /\ r < nose_narrow_max
                    \/ r2 >= r /\ r > nose_medium_max
                    \/ /\ nose_medium_min <= r /\ r <= nose_medium_max
                       /\ Abs(r2 - mid) <= Abs(r - mid)
            IN  further => NoseConfidenceAt(r2) >= fn_call.result.confidence

\* a medium call at 0.27 whose confidence 0.75 is below the 0.90 of 0.30
C14_Witness ==
    /\ NoseCall
    /\ fn_call.ratio = (27 * SCALE) \div 100
    /\ fn_call.measurement_stability = SCALE
    /\ fn_call.result.confidence = (75 * SCALE) \div 100
    /\ NoseConfidenceAt((30 * SCALE) \div 100) = (90 * SCALE) \div 100

MaxLipSteps == 12

\* upper and lower lip ratios 0, 0.01, 0.02, ...
LipRatios == {k * (SCALE \div 100) : k \in 0..MaxLipSteps}

AssessLipBalance ==
    /\ pc = "call"
    /\ \E u \in LipRatios, l \in LipRatios :
         fn_call' = [ fn |-> "assess_lip_balance", upper_ratio |-> u,
                      lower_ratio |-> l, result |-> assess_lip_balance(u, l) ]
    /\ pc' = "returned"
    /\ UNCHANGED <<inputs, quality, eyes, prev_eyes, nose, lips, boxes, pixel_boxes, summary, result,
                   shared, runs>>

NextBalance == AssessLipBalance

SpecBalance == InitFn /\ [][NextBalance]_vars

\* C16: with d = |upper_ratio - lower_ratio| the balance is balanced for
\* d < 0.02, slightly dominant for 0.02 <= d < 0.05 and dominant for
\* d >= 0.05, naming the lip with the larger ratio.
C16_LipBalanceThresholds ==
    (fn_call # None /\ fn_call.fn = "assess_lip_balance") =>
        LET d == Abs(fn_call.upper_ratio - fn_call.lower_ratio)
            side == IF fn_call.upper_ratio > fn_call.lower_ratio THEN "upper"
                    ELSE "lower"
        IN  fn_call.result =
                IF d < (2 * SCALE) \div 100 THEN "balanced"
                ELSE IF d < (5 * SCALE) \div 100
                THEN (IF side = "upper" THEN "slightly_upper_dominant"
                                        ELSE "slightly_lower_dominant")
                ELSE (IF side = "upper" THEN "upper_dominant" ELSE "lower_dominant")

(***************************************************************************)
(* classify_eyes on eyes of every proportion                               *)
(***************************************************************************)
NProportions == 3

\* eye widths, lid openings and upper-lid sags, right eye
LidWidths == Pick(<<1500, 6, 0, 200>>, NProportions)
LidOpenings == Pick(<<300, 50, 8, 0>>, NProportions)
LidSags == Pick(<<100, 400, 0, 30>>, NProportions)

LidFaces ==
    { Face([BaseEye EXCEPT !.w = w, !.open = o, !.sag = sg, !.tilt = t],
           [BaseEye EXCEPT !.w = wl, !.open = ol],
           BaseGeom) :
        w \in LidWidths, o \in LidOpenings, sg \in LidSags, t \in {0, 400},
        wl \in {1500, 100}, ol \in {300, 50} }

InitLids ==
    /\ landmarks \in LidFaces
    /\ image = [width |-> 640, height |-> 480]
    /\ confidences = <<>>
    /\ padding = (15 * SCALE) \div 100
    /\ pc = "eyes"
    /\ NoResults

NextLids == ClassifyEyes

SpecLids == InitLids /\ [][NextLids]_vars

\* aspect_ratio and eyelid_coverage of one eye as the contract words them
EyeRatiosClamped(m, tab) ==
    /\ InUnit(m.aspect_ratio)
    /\ InUnit(m.eyelid_coverage)
    /\ m.width = Max2(EYE_EPS, Dist(landmarks, tab.inner_corner, tab.outer_corner))
    /\ m.aspect_ratio = Min2(SCALE, (m.height * SCALE) \div m.width)
    /\ Abs(landmarks[tab.bottom_center].y - landmarks[tab.top_center].y) <= EYE_EPS
           => m.eyelid_coverage = SCALE \div 2

\* C17: the per-eye and the averaged aspect_ratio and eyelid_coverage lie in
\* [0,1]; aspect_ratio is height / max(width, 0.001) clamped, and
\* eyelid_coverage is 0.5 when |bottom_y - top_y| <= 0.001.
C17_EyeRatiosInUnitRange ==
    eyes # None =>
        /\ EyeRatiosClamped(eyes.metrics.right_eye, RIGHT_EYE_LANDMARKS)
        /\ EyeRatiosClamped(eyes.metrics.left_eye, LEFT_EYE_LANDMARKS)
        /\ InUnit(eyes.details.aspect_ratio)
        /\ InUnit(eyes.details.eyelid_coverage)
        /\ eyes.details.aspect_ratio =
               (eyes.metrics.right_eye.aspect_ratio
                + eyes.metrics.left_eye.aspect_ratio) \div 2
        /\ eyes.details.eyelid_coverage =
               (eyes.metrics.right_eye.eyelid_coverage
                + eyes.metrics.left_eye.eyelid_coverage) \div 2

\* a right eye taller than wide whose lid sags below the lower lid: both
\* ratios are cut to 1
C17_Witness ==
    /\ eyes # None
    /\ eyes.metrics.right_eye.height > eyes.metrics.right_eye.width
    /\ eyes.metrics.right_eye.aspect_ratio = SCALE
    /\ landmarks[160].y > landmarks[145].y
    /\ eyes.metrics.right_eye.eyelid_coverage = SCALE
    /\ eyes.details.eyelid_coverage < SCALE

(***************************************************************************)
(* Landmark lists with fewer than 478 entries                              *)
(***************************************************************************)
NShort == 8

\* len(landmarks)
ShortLengths == Pick(<<468, 400, 474, 0, 473, 478, 34, 160, 477, 1>>, NShort)

\* the first n entries of a landmark list
Truncate(lms, n) == [i \in {j \in DOMAIN lms : j < n} |-> lms[i]]

ShortFaces ==
    { Truncate(Face([BaseEye EXCEPT !.tilt = t], BaseEye, [BaseGeom EXCEPT !.fw = fw]), n) :
        t \in {0, 400}, fw \in {6000, 3000}, n \in ShortLengths }

InitShort ==
    /\ landmarks \in ShortFaces
    /\ image = [width |-> 640, height |-> 480]
    /\ confidences = <<>>
    /\ padding = (15 * SCALE) \div 100
    /\ pc \in {"eyes", "boxes"}
    /\ NoResults

NextShort ==
    \/ ClassifyEyes
    \/ \E normalize \in BOOLEAN : CalculateAllBoxes(normalize)

SpecShort == InitShort /\ [][NextShort]_vars

\* some index the eye tables address is beyond the end of the list
EyeIndexMissing ==
    \E i \in eye_indices(RIGHT_EYE_LANDMARKS) \cup eye_indices(LEFT_EYE_LANDMARKS) :
        i \notin DOMAIN landmarks

\* C18: classify_eyes on a list too short for an index of the eye tables
\* fails with an index error and returns no classification; on a list that
\* holds every such index it returns one.
C18_ShortListRaisesIndexError ==
    eyes # None =>
        IF EyeIndexMissing
        THEN /\ eyes.raised
             /\ eyes.error = "IndexError"
             /\ DOMAIN eyes = {"raised", "error"}
        ELSE /\ ~eyes.raised
             /\ eyes.eye_shape \in EyeShapes

\* 468 landmarks: every lid and corner point, no iris centre
C18_Witness ==
    /\ eyes # None
    /\ 466 \in DOMAIN landmarks
    /\ 468 \notin DOMAIN landmarks
    /\ eyes.raised
    /\ eyes.error = "IndexError"

\* some index of a box group is beyond the end of the list
BoxIndexMissing ==
    \E g \in DOMAIN BoxGroups : \E i \in SeqSet(BoxGroups[g]) : i \notin DOMAIN landmarks

\* C19: calculate_all_boxes on a list too short for an index of a box group
\* fails with an error: it returns neither boxes of the indices that exist
\* nor all-zero boxes.
C19_ShortListBoxesRaise ==
    (boxes # None /\ BoxIndexMissing) =>
        /\ "raised" \in DOMAIN boxes
        /\ boxes.raised

(***************************************************************************)
(* SummaryFormatter                                                        *)
(*                                                                         *)
(* A text is the sequence of the words a single space separates, with the  *)
(* closing period of the description as a word of its own; a tag list is   *)
(* a sequence of texts.                                                    *)
(***************************************************************************)
Reverse(s) == [i \in 1..Len(s) |-> s[Len(s) + 1 - i]]

\* str.strip(): leading and trailing blanks removed, inner ones kept
RECURSIVE lstrip(_)
lstrip(text) == IF text # <<>> /\ Head(text) = "" THEN lstrip(Tail(text)) ELSE text

strip(text) == Reverse(lstrip(Reverse(lstrip(text))))

\* str.lower() on the feature names
lower(word) ==
    CASE word = "Almond" -> "almond"
      [] word = "Round" -> "round"
      [] word = "Monolid" -> "monolid"
      [] word = "Hooded" -> "hooded"
      [] word = "Upturned" -> "upturned"
      [] word = "Downturned" -> "downturned"
      [] OTHER -> word

\* lip_balance.replace('_', ' ')
replace_underscores(lip_balance) ==
    CASE lip_balance = "slightly_upper_dominant" -> <<"slightly", "upper", "dominant">>
      [] lip_balance = "slightly_lower_dominant" -> <<"slightly", "lower", "dominant">>
      [] lip_balance = "upper_dominant" -> <<"upper", "dominant">>
      [] lip_balance = "lower_dominant" -> <<"lower", "dominant">>
      [] OTHER -> <<lip_balance>>

\* 'part' in lip_balance
has_part(lip_balance, part) == part \in SeqSet(replace_underscores(lip_balance))

\* features.get('eye_secondary') is truthy
has_secondary(features) ==
    "eye_secondary" \in DOMAIN features /\ features.eye_secondary # <<>>

summary_features(eye_analysis, nose_analysis, lip_analysis) ==
    LET primary == [ eye_shape |-> eye_analysis.eye_shape,
                     nose_width |-> nose_analysis.nose_width,
                     lip_fullness |-> lip_analysis.lip_fullness,
                     lip_balance |->
                         IF "details" \in DOMAIN lip_analysis
                            /\ "lip_balance" \in DOMAIN lip_analysis.details
                         THEN lip_analysis.details.lip_balance
                         ELSE "balanced" ]
    IN  IF "secondary_features" \in DOMAIN eye_analysis
           /\ eye_analysis.secondary_features # <<>>
        THEN primary @@ ("eye_secondary" :> eye_analysis.secondary_features)
        ELSE primary

get_technique_tags(features) ==
    (IF features.eye_shape = "Hooded" THEN << <<"cut", "crease", "tutorial">> >>
     ELSE IF features.eye_shape = "Monolid"
     THEN << <<"monolid", "eyeshadow", "technique">> >>
     ELSE IF features.eye_shape = "Round" THEN << <<"elongating", "eye", "makeup">> >>
     ELSE <<>>)
    \o << <<features.nose_width, "nose", "contour", "tutorial">> >>
    \o (IF features.lip_fullness = "thin" THEN << <<"lip", "plumping", "technique">> >>
        ELSE IF features.lip_fullness = "full"
        THEN << <<"full", "lip", "makeup", "tutorial">> >>
        ELSE <<>>)

generate_search_tags(features) ==
    << <<features.eye_shape, "eyes", features.nose_width, "nose",
         features.lip_fullness, "lips">>,
       <<features.eye_shape, "eye", "makeup">>,
       <<features.nose_width, "nose", "makeup">>,
       <<features.lip_fullness, "lips", "makeup">> >>
    \o (IF "eye_secondary" \in DOMAIN features
        THEN [k \in DOMAIN features.eye_secondary |->
                 <<features.eye_secondary[k], "eyes", "makeup">>]
        ELSE <<>>)
    \o << strip(<<features.eye_shape,
                  IF has_secondary(features) THEN features.eye_secondary[1] ELSE "",
                  "eyes">>),
          <<"makeup", "for", features.nose_width, "nose">>,
          <<"makeup", "for", features.lip_fullness, "lips">> >>
    \o get_technique_tags(features)

get_eye_keywords(features) ==
    LET eye_shape == features.eye_shape
        secondary == IF "eye_secondary" \in DOMAIN features
                     THEN features.eye_secondary ELSE <<>>
    IN  <<eye_shape, "eye makeup", "eyeshadow">>
        \o (IF eye_shape = "Almond" THEN <<"winged eyeliner", "cat eye", "smokey eye">>
            ELSE IF eye_shape = "Round"
            THEN <<"elongating", "lengthening", "outer corner emphasis">>
            ELSE IF eye_shape = "Monolid"
            THEN <<"monolid tutorial", "tightlining", "gradient eye">>
            ELSE IF eye_shape = "Hooded"
            THEN <<"hooded eye tutorial", "cut crease", "halo eye">>
            ELSE <<>>)
        \o (IF "Upturned" \in SeqSet(secondary) THEN <<"upturned", "lifted", "fox eye">>
            ELSE IF "Downturned" \in SeqSet(secondary)
            THEN <<"downturned", "puppy eye", "lifting technique">>
            ELSE <<>>)

get_nose_keywords(features) ==
    <<features.nose_width, "nose contour", "nose makeup">>
    \o (IF features.nose_width = "narrow"
        THEN <<"highlight bridge", "widen nose", "side highlight">>
        ELSE IF features.nose_width = "medium"
        THEN <<"natural contour", "subtle definition">>
        ELSE IF features.nose_width = "wide"
        THEN <<"slim nose", "nose contour", "bridge highlight">>
        ELSE <<>>)

get_lip_keywords(features) ==
    <<features.lip_fullness, "lip makeup", "lipstick">>
    \o (IF features.lip_fullness = "thin"
        THEN <<"plump lips", "lip liner", "overlining", "fuller lips">>
        ELSE IF features.lip_fullness = "medium" THEN <<"natural lip", "lip definition">>
        ELSE IF features.lip_fullness = "full"
        THEN <<"full lips", "matte lipstick", "lip stain">>
        ELSE <<>>)
    \o (IF has_part(features.lip_balance, "upper") THEN <<"balance lower lip">>
        ELSE IF has_part(features.lip_balance, "lower") THEN <<"balance upper lip">>
        ELSE <<>>)

generate_makeup_keywords(features) ==
    [ eye |-> get_eye_keywords(features),
      nose |-> get_nose_keywords(features),
      lip |-> get_lip_keywords(features) ]

generate_description(features) ==
    LET eye_desc == <<features.eye_shape>>
                    \o (IF "eye_secondary" \in DOMAIN features
                        THEN <<lower(features.eye_secondary[1])>> ELSE <<>>)
    IN  <<"Your", "facial", "features", "include">> \o eye_desc
        \o <<"eyes,", "a", features.nose_width, "nose,", "and",
             features.lip_fullness, "lips">>
        \o (IF has_part(features.lip_balance, "dominant")
            THEN <<"with", "a">> \o replace_underscores(features.lip_balance)
                 \o <<"lip", "balance">>
            ELSE <<>>)
        \o <<".">>

create_feature_summary(features) ==
    [ eyes |-> [ primary |-> features.eye_shape,
                 secondary |-> IF "eye_secondary" \in DOMAIN features
                               THEN features.eye_secondary ELSE <<>> ],
      nose |-> [ width |-> features.nose_width ],
      lips |-> [ fullness |-> features.lip_fullness,
                 balance |-> features.lip_balance ] ]

\* a list read back in an order that is not the order of insertion
list_orders_unordered(items) == {items, Reverse(items)}

\* the orders in which a list built by append and extend is read back
list_orders(items) == {items}

\* the confidence of the primary shape in place of the largest score
overall_confidence_of_primary(eye_analysis, nose_analysis, lip_analysis) ==
    (eye_analysis.confidence_scores[eye_analysis.eye_shape]
     + nose_analysis.confidence + lip_analysis.confidence) \div 3

\* sum(confidences) / len(confidences)
overall_confidence_of(eye_analysis, nose_analysis, lip_analysis) ==
    LET scores == eye_analysis.confidence_scores
    IN  (SetMax({scores[k] : k \in DOMAIN scores})
         + nose_analysis.confidence + lip_analysis.confidence) \div 3

\* the summaries a call can return
create_summary(eye_analysis, nose_analysis, lip_analysis) ==
    LET features == summary_features(eye_analysis, nose_analysis, lip_analysis)
    IN  { [ features |-> features,
            overall_confidence |->
                overall_confidence_of(eye_analysis, nose_analysis, lip_analysis),
            search_tags |-> search_tags,
            makeup_keywords |-> generate_makeup_keywords(features),
            description |-> generate_description(features),
            feature_summary |-> create_feature_summary(features) ] :
          search_tags \in list_orders(generate_search_tags(features)) }

NSummaryConfidence == 2

SummaryConfidences == Pick(<<(9 * SCALE) \div 10, (6 * SCALE) \div 10, SCALE, 0>>, NSummaryConfidence)

BaseShapes == {"Almond", "Round", "Monolid", "Hooded"}

AngleShapes == {"Upturned", "Downturned"}

\* what _determine_eye_shape returns: a base shape alone, a base shape with
\* the tilt as secondary feature, or the tilt with the base shape as
\* secondary feature
EyeAnalyses ==
    { [ eye_shape |-> b, secondary_features |-> <<>>, confidence_scores |-> (b :> c) ] :
        b \in BaseShapes, c \in SummaryConfidences }
    \cup { [ eye_shape |-> b, secondary_features |-> <<a>>,
             confidence_scores |-> (b :> c) @@ (a :> (c \div 2)) ] :
           b \in BaseShapes, a \in AngleShapes, c \in SummaryConfidences }
    \cup { [ eye_shape |-> a, secondary_features |-> <<b>>,
             confidence_scores |-> (a :> c) @@ (b :> (c \div 2)) ] :
           b \in BaseShapes, a \in AngleShapes, c \in SummaryConfidences }

NoseAnalyses ==
    { [ nose_width |-> w, confidence |-> c ] :
        w \in {"narrow", "medium", "wide"}, c \in SummaryConfidences }

LipBalances == {"balanced", "slightly_upper_dominant", "slightly_lower_dominant", "upper_dominant", "lower_dominant"}

LipAnalyses ==
    { [ lip_fullness |-> f, confidence |-> (8 * SCALE) \div 10, details |-> [lip_balance |-> b] ] :
        f \in {"thin", "medium", "full"}, b \in LipBalances }

CreateSummary ==
    /\ pc = "call"
    /\ \E e \in EyeAnalyses, n \in NoseAnalyses, l \in LipAnalyses :
       \E returned \in create_summary(e, n, l) :
         fn_call' = [ fn |-> "create_summary", eye_analysis |-> e, nose_analysis |-> n,
                      lip_analysis |-> l, result |-> returned, again |-> None ]
    /\ pc' = "returned"
    /\ UNCHANGED <<inputs, quality, eyes, prev_eyes, nose, lips, boxes, pixel_boxes, summary, result,
                   shared, runs>>

\* a second call with the arguments of the first
CreateSummaryAgain ==
    /\ pc = "returned"
    /\ fn_call.fn = "create_summary"
    /\ \E returned \in create_summary(fn_call.eye_analysis, fn_call.nose_analysis,
                                     fn_call.lip_analysis) :
         fn_call' = [fn_call EXCEPT !.again = returned]
    /\ pc' = "repeated"
    /\ UNCHANGED <<inputs, quality, eyes, prev_eyes, nose, lips, boxes, pixel_boxes, summary, result,
                   shared, runs>>

NextSummary ==
    \/ CreateSummary
    \/ CreateSummaryAgain

SpecSummary == InitFn /\ [][NextSummary]_vars

eye_result_of(classification) ==
    [ eye_shape |-> classification.primary_shape,
      secondary_features |-> classification.secondary_features,
      confidence_scores |-> classification.confidence_scores,
      confidence |-> classification.overall_confidence ]

SummariseShape ==
    /\ pc = "returned"
    /\ fn_call.fn = "determine_eye_shape"
    /\ \E n \in NoseAnalyses, l \in LipAnalyses :
       \E returned \in create_summary(eye_result_of(fn_call.result), n, l) :
         fn_call' = [ fn |-> "create_summary",
                      eye_analysis |-> eye_result_of(fn_call.result),
                      nose_analysis |-> n, lip_analysis |-> l,
                      result |-> returned, again |-> None ]
    /\ pc' = "summarised"
    /\ UNCHANGED <<inputs, quality, eyes, prev_eyes, nose, lips, boxes, pixel_boxes, summary, result,
                   shared, runs>>

NextShapeSummary ==
    \/ DetermineEyeShape
    \/ SummariseShape

SpecShapeSummary == InitFn /\ [][NextShapeSummary]_vars

\* the value is the largest of a non-empty collection
IsMaxOf(m, values) == m \in values /\ \A v \in values : v <= m

\* C21: overall_confidence is a third of the sum of the largest value of the
\* eye result's confidence_scores, the nose confidence and the lip
\* confidence, for every eye result of _determine_eye_shape.
C21_OverallConfidenceIsMean ==
    (pc = "summarised") =>
        LET scores == fn_call.eye_analysis.confidence_scores
            values == {scores[k] : k \in DOMAIN scores}
        IN  /\ values # {}
            /\ \E m \in values :
                 /\ IsMaxOf(m, values)
                 /\ fn_call.result.overall_confidence
                        = (m + fn_call.nose_analysis.confidence
                             + fn_call.lip_analysis.confidence) \div 3

\* the largest score is the secondary Monolid's 0.89, above the primary
\* Upturned's 0.693: (0.89 + 0.9 + 0.8) / 3
C21_Witness ==
    /\ pc = "summarised"
    /\ fn_call.eye_analysis.eye_shape = "Upturned"
    /\ fn_call.eye_analysis.confidence_scores["Upturned"] = (6933 * SCALE) \div 10000
    /\ fn_call.eye_analysis.confidence_scores["Monolid"] = (89 * SCALE) \div 100
    /\ fn_call.nose_analysis.confidence = (9 * SCALE) \div 10
    /\ fn_call.result.overall_confidence = (8633 * SCALE) \div 10000

(***************************************************************************)
(* FaceAnalyzer.analyze_image from the quality check to the returned       *)
(* dictionary (the image bytes, num_landmarks and the upload left out)     *)
(***************************************************************************)
\* an analysis that is refused when the quality report is not acceptable
analysis_result_rejecting(quality_result, eye, nose_result, lip, bounding_boxes, summ, lms, img, annotated) ==
    IF ~quality_result.is_acceptable
    THEN [ error |-> "Image quality too low", face_detected |-> TRUE ]
    ELSE [ face_detected |-> TRUE, num_faces |-> 1, landmarks |-> lms,
           image_dimensions |-> img, quality_check |-> quality_result,
           bounding_boxes |-> bounding_boxes, eye_analysis |-> eye,
           nose_analysis |-> nose_result, lip_analysis |-> lip, summary |-> summ,
           annotated_image_bytes |-> annotated ]

\* the dictionary of lines 220-233, or the one of the except branch when a
\* step raised
analysis_result(quality_result, eye, nose_result, lip, bounding_boxes, summ, lms, img, annotated) ==
    IF quality_result.raised \/ eye.raised \/ nose_result.raised \/ lip.raised
    THEN [ error |-> "Analysis failed", face_detected |-> FALSE ]
    ELSE [ face_detected |-> TRUE, num_faces |-> 1, landmarks |-> lms,
           image_dimensions |-> img, quality_check |-> quality_result,
           bounding_boxes |-> bounding_boxes, eye_analysis |-> eye,
           nose_analysis |-> nose_result, lip_analysis |-> lip, summary |-> summ,
           annotated_image_bytes |-> annotated ]

SummariseAnalysis ==
    /\ pc = "done"
    /\ quality # None /\ eyes # None /\ nose # None /\ lips # None /\ boxes # None
    /\ summary = None
    /\ summary' \in IF eyes.raised \/ nose.raised \/ lips.raised
                    THEN {None} ELSE create_summary(eyes, nose, lips)
    /\ pc' = "annotate"
    /\ UNCHANGED <<inputs, quality, eyes, prev_eyes, nose, lips, boxes, pixel_boxes,
                   fn_call, result, shared, runs>>

\* the annotated image is drawn, or drawing fails and None is kept
ReturnResult ==
    /\ pc = "annotate"
    /\ \E annotated \in BOOLEAN :
         result' = analysis_result(quality, eyes, nose, lips, boxes, summary,
                                   landmarks, image, annotated)
    /\ pc' = "finished"
    /\ UNCHANGED <<inputs, quality, eyes, prev_eyes, nose, lips, boxes, pixel_boxes,
                   fn_call, summary, shared, runs>>

\* faces whose pose, expression, eyes and mouth vary
AnalyzeFaces ==
    { Face([BaseEye EXCEPT !.tilt = t], [BaseEye EXCEPT !.tilt = t],
           [BaseGeom EXCEPT !.forehead_x = f[1], !.forehead_y = f[2], !.gap = gap,
                            !.corner_up = up, !.mw = mw]) :
        f \in Foreheads, t \in {0, 400}, gap \in {40, 400}, up \in {0, 100},
        mw \in {2000, 0} }

InitAnalyze ==
    /\ landmarks \in AnalyzeFaces
    /\ image = [width |-> 640, height |-> 480]
    /\ confidences = <<>>
    /\ padding = (15 * SCALE) \div 100
    /\ pc = "validate"
    /\ NoResults

NextAnalyze ==
    \/ ValidateAll
    \/ ClassifyEyes
    \/ ClassifyNose
    \/ ClassifyLips
    \/ CalculateAllBoxes(TRUE)
    \/ SummariseAnalysis
    \/ ReturnResult

SpecAnalyze == InitAnalyze /\ [][NextAnalyze]_vars

\* C22: whatever the quality report says, the returned dictionary holds the
\* quality report next to the results of the three classifiers, the boxes
\* and the summary, each one what the step returns for the landmarks.
C22_QualityIsAdvisory ==
    (pc = "finished") =>
        /\ result.face_detected
        /\ "error" \notin DOMAIN result
        /\ result.quality_check = quality
        /\ result.eye_analysis = classify_eyes(landmarks)
        /\ result.nose_analysis = classify_nose(landmarks)
        /\ result.lip_analysis = classify_lips(landmarks)
        /\ result.bounding_boxes
               = calculate_all_boxes(landmarks, image.width, image.height, TRUE, padding)
        /\ result.summary \in create_summary(result.eye_analysis, result.nose_analysis,
                                             result.lip_analysis)

\* an analysis returned in full with a report that is not acceptable and
\* carries both warnings
C22_Witness ==
    /\ pc = "finished"
    /\ ~quality.is_acceptable
    /\ Len(quality.warnings) = 2
    /\ "eye_analysis" \in DOMAIN result
    /\ result.eye_analysis.eye_shape \in EyeShapes
    /\ result.summary.features.nose_width = result.nose_analysis.nose_width

(***************************************************************************)
(* Two analyses at once on one FaceAnalyzer                                *)
(*                                                                         *)
(* The analyzer's components are built once in __init__ and every call of  *)
(* analyze_image goes through them; the tables are class attributes.  An   *)
(* analysis keeps its landmark list and its results in locals.             *)
(***************************************************************************)
Analyses == {1, 2}

\* what every invocation can reach through self
SharedState ==
    [ padding_percent |-> (15 * SCALE) \div 100,
      eye_thresholds |-> [ round_min |-> round_min, almond_min |-> almond_min,
                           almond_max |-> almond_max, monolid_max |-> monolid_max,
                           hooded_max |-> hooded_max, upturned_min |-> upturned_min,
                           downturned_max |-> downturned_max ],
      nose_thresholds |-> [ narrow_max |-> nose_narrow_max, medium_min |-> nose_medium_min,
                            medium_max |-> nose_medium_max ],
      lip_thresholds |-> [ thin_max |-> thin_max, medium_min |-> lip_medium_min,
                           medium_max |-> lip_medium_max ],
      eye_tables |-> <<RIGHT_EYE_LANDMARKS, LEFT_EYE_LANDMARKS>>,
      box_groups |-> BoxGroups ]

\* calculate_all_boxes leaving on the instance a padding chosen for the face
writes_of_adaptive_padding(step, sh, lms) ==
    IF step = "boxes" /\ Abs(lms[454].x - lms[234].x) < SCALE \div 2
    THEN [ shared |-> [sh EXCEPT !.padding_percent = (3 * SCALE) \div 10],
           landmarks |-> lms ]
    ELSE [ shared |-> sh, landmarks |-> lms ]

\* the shared state and the caller's list as a step leaves them: no step
\* assigns to self, to a class attribute or to an element of landmarks
writes_of(step, sh, lms) == [ shared |-> sh, landmarks |-> lms ]

NewRun(lms) ==
    [ given |-> lms, landmarks |-> lms, pc |-> "validate", quality |-> None,
      eyes |-> None, nose |-> None, lips |-> None, boxes |-> None, summary |-> None ]

\* one step of analysis a: its result goes to the analysis's own locals
RunStep(a, step, next, field, value) ==
    /\ pc = "concurrent"
    /\ runs[a].pc = step
    /\ LET w == writes_of(step, shared, runs[a].landmarks)
       IN  /\ runs' = [runs EXCEPT ![a] = [runs[a] EXCEPT ![field] = value,
                                                          !.pc = next,
                                                          !.landmarks = w.landmarks]]
           /\ shared' = w.shared
    /\ UNCHANGED <<inputs, pc, quality, eyes, prev_eyes, nose, lips, boxes, pixel_boxes,
                   fn_call, summary, result>>

RunValidate(a) ==
    RunStep(a, "validate", "eyes", "quality",
            validate_all(runs[a].landmarks, image.width, image.height, <<>>))

RunEyes(a) == RunStep(a, "eyes", "nose", "eyes", classify_eyes(runs[a].landmarks))

RunNose(a) == RunStep(a, "nose", "lips", "nose", classify_nose(runs[a].landmarks))

RunLips(a) == RunStep(a, "lips", "boxes", "lips", classify_lips(runs[a].landmarks))

RunBoxes(a) ==
    RunStep(a, "boxes", "summary", "boxes",
            calculate_all_boxes(runs[a].landmarks, image.width, image.height, TRUE,
                                shared.padding_percent))

RunSummary(a) ==
    /\ runs[a].pc = "summary"
    /\ \E returned \in create_summary(runs[a].eyes, runs[a].nose, runs[a].lips) :
         RunStep(a, "summary", "finished", "summary", returned)

\* the landmark sets of the callers: a plain face, one with tilted, wide-open
\* eyes and a narrow face, one with a wide nose and an open mouth
ConcurrentFaces ==
    { Face(BaseEye, BaseEye, BaseGeom),
      Face([BaseEye EXCEPT !.tilt = 400, !.open = 900],
           [BaseEye EXCEPT !.tilt = 400, !.open = 900], [BaseGeom EXCEPT !.fw = 4000]),
      Face([BaseEye EXCEPT !.sag = 280], [BaseEye EXCEPT !.sag = 280],
           [BaseGeom EXCEPT !.ala = 2800, !.nostril = 2600, !.inner = 2400,
                            !.gap = 400, !.upper = 300]) }

InitConcurrent ==
    /\ landmarks = Coincident
    /\ image = [width |-> 640, height |-> 480]
    /\ confidences = <<>>
    /\ padding = (15 * SCALE) \div 100
    /\ pc = "concurrent"
    /\ quality = None /\ eyes = None /\ prev_eyes = None /\ nose = None
    /\ lips = None /\ boxes = None /\ pixel_boxes = None /\ fn_call = None
    /\ summary = None /\ result = None
    /\ shared = SharedState
    /\ runs \in [Analyses -> {NewRun(lms) : lms \in ConcurrentFaces}]

NextConcurrent ==
    \E a \in Analyses :
        \/ RunValidate(a)
        \/ RunEyes(a)
        \/ RunNose(a)
        \/ RunLips(a)
        \/ RunBoxes(a)
        \/ RunSummary(a)

SpecConcurrent == InitConcurrent /\ [][NextConcurrent]_vars

\* what an analysis of the landmark set returns when nothing else runs
AloneIs(run) ==
    /\ run.quality = validate_all(run.given, 640, 480, <<>>)
    /\ run.eyes = classify_eyes(run.given)
    /\ run.nose = classify_nose(run.given)
    /\ run.lips = classify_lips(run.given)
    /\ run.boxes = calculate_all_boxes(run.given, 640, 480, TRUE, (15 * SCALE) \div 100)
    /\ run.summary \in create_summary(classify_eyes(run.given), classify_nose(run.given),
                                      classify_lips(run.given))

ShapeCall == fn_call # None /\ fn_call.fn = "determine_eye_shape"

\* C24: the angle type is primary, with its confidence as the overall
\* confidence, when it was determined, its confidence exceeds 0.65 and the
\* tilt exceeds 3.0 in size; the base shape is then the only secondary tag
\* exactly when it is not Almond and scores above 0.65.  Otherwise the base
\* shape is primary with its confidence, and the angle type is the only
\* secondary tag exactly when it was determined and scores above 0.60.
C24_CombinationRule ==
    ShapeCall =>
        LET r == fn_call.result
            scores == r.confidence_scores
            angles == DOMAIN scores \cap {"Upturned", "Downturned"}
            bases == DOMAIN scores \cap {"Monolid", "Hooded", "Round", "Almond"}
            tilted == Abs(fn_call.metrics.corner_angle) > 3 * SCALE
        IN  \E b \in bases :
              IF tilted /\ \E a \in angles : scores[a] > (65 * SCALE) \div 100
              THEN \E a \in angles :
                     /\ r.primary_shape = a
                     /\ r.overall_confidence = scores[a]
                     /\ r.secondary_features
                            = IF b # "Almond" /\ scores[b] > (65 * SCALE) \div 100
                              THEN <<b>> ELSE <<>>
              ELSE /\ r.primary_shape = b
                   /\ r.overall_confidence = scores[b]
                   /\ r.secondary_features \in {<<>>} \cup {<<a>> : a \in angles}
                   /\ (r.secondary_features # <<>>)
                          <=> (\E a \in angles : scores[a] > (6 * SCALE) \div 10)

\* a tilt of 4 at measurement quality 0.9 scores 0.6239: above 0.60 and not
\* above 0.65, so the Hooded base shape stays primary and Upturned is the
\* secondary tag
C24_Witness ==
    /\ ShapeCall
    /\ fn_call.metrics.corner_angle = 4 * SCALE
    /\ fn_call.measurement_quality = (9 * SCALE) \div 10
    /\ fn_call.result.confidence_scores["Upturned"] = (6239 * SCALE) \div 10000
    /\ fn_call.result.primary_shape = "Hooded"
    /\ fn_call.result.secondary_features = <<"Upturned">>

(***************************************************************************)
(* The base shape of the averaged eye                                      *)
(***************************************************************************)
\* the first test that matches, in the order Monolid, Hooded, Round, Almond
FirstMatch(eyelid_coverage, is_deep_set, aspect_ratio) ==
    IF eyelid_coverage < (12 * SCALE) \div 100 THEN "Monolid"
    ELSE IF eyelid_coverage < (30 * SCALE) \div 100 \/ is_deep_set THEN "Hooded"
    ELSE IF aspect_ratio > (50 * SCALE) \div 100 THEN "Round"
    ELSE "Almond"

\* C25: classify_eyes decides on the mean of the two eyes' aspect ratio,
\* eyelid coverage, corner angle and depth difference and on the OR of their
\* deep-set flags; confidence_scores holds exactly one base shape, the first
\* match of: coverage < 0.12 Monolid, coverage < 0.30 or deep-set Hooded,
\* aspect ratio > 0.50 Round, else Almond.
C25_BaseShapeFirstMatch ==
    (eyes # None) =>
        LET d == eyes.details
            right == eyes.metrics.right_eye
            left == eyes.metrics.left_eye
            bases == DOMAIN eyes.confidence_scores
                     \cap {"Monolid", "Hooded", "Round", "Almond"}
        IN  /\ d.aspect_ratio = (right.aspect_ratio + left.aspect_ratio) \div 2
            /\ d.eyelid_coverage = (right.eyelid_coverage + left.eyelid_coverage) \div 2
            /\ d.corner_angle = (right.corner_angle + left.corner_angle) \div 2
            /\ d.depth_metrics.eyelid_depth_diff
                   = (right.depth_metrics.eyelid_depth_diff
                      + left.depth_metrics.eyelid_depth_diff) \div 2
            /\ d.depth_metrics.is_deep_set
                   <=> (right.depth_metrics.is_deep_set \/ left.depth_metrics.is_deep_set)
            /\ bases = {FirstMatch(d.eyelid_coverage, d.depth_metrics.is_deep_set,
                                   d.aspect_ratio)}

\* one eye alone is deep-set, the coverage is at least 0.30 and the aspect
\* ratio is above 0.50: Hooded, not Round
C25_Witness ==
    /\ eyes # None
    /\ eyes.metrics.right_eye.depth_metrics.is_deep_set
    /\ ~eyes.metrics.left_eye.depth_metrics.is_deep_set
    /\ eyes.details.eyelid_coverage >= (30 * SCALE) \div 100
    /\ eyes.details.aspect_ratio > (50 * SCALE) \div 100
    /\ "Hooded" \in DOMAIN eyes.confidence_scores
    /\ "Round" \notin DOMAIN eyes.confidence_scores

(***************************************************************************)
(* _calculate_lip_metrics_multipoint on a face, on the face with the       *)
(* upper-lip centre displaced, and on the face with the sampled contour    *)
(* points displaced                                                        *)
(***************************************************************************)
\* upper_outer[idx] and lower_outer[idx] for the sample indices (-1 is the
\* last element), without the points of the two centre pairs
SampledContour ==
    LET upper_outer == LIP_LANDMARKS.upper_outer_lip
        lower_outer == LIP_LANDMARKS.lower_outer_lip
        at(s, idx) == IF idx < 0 THEN s[Len(s) + 1 + idx] ELSE s[idx + 1]
    IN  ({at(upper_outer, lip_sample_indices[k]) : k \in DOMAIN lip_sample_indices}
         \cup {at(lower_outer, lip_sample_indices[k]) : k \in DOMAIN lip_sample_indices})
        \ { LIP_LANDMARKS.upper_lip_top_center, LIP_LANDMARKS.upper_lip_bottom_center,
            LIP_LANDMARKS.lower_lip_top_center, LIP_LANDMARKS.lower_lip_bottom_center,
            LIP_LANDMARKS.left_corner, LIP_LANDMARKS.right_corner }

\* the landmarks of the set moved down by dy
MoveY(lms, moved, dy) ==
    [i \in DOMAIN lms |-> IF i \in moved THEN P(lms[i].x, lms[i].y + dy, lms[i].z)
                          ELSE lms[i]]

LipFaces ==
    { Face(BaseEye, BaseEye, [BaseGeom EXCEPT !.upper = u, !.lower = l, !.gap = gap,
                                              !.mw = mw]) :
        u \in {130, 60, 250}, l \in {180, 90, 300}, gap \in {40, 200},
        mw \in {2000, 1200} }

Displacements == {-300, -100, 100, 300}

CalculateLipMetrics ==
    /\ pc = "call"
    /\ \E lms \in LipFaces, dy \in Displacements :
         fn_call' =
           [ fn |-> "calculate_lip_metrics_multipoint", landmarks |-> lms,
             displaced_by |-> dy,
             result |-> calculate_lip_metrics_multipoint(lms),
             centre_moved |-> calculate_lip_metrics_multipoint(
                                  MoveY(lms, {LIP_LANDMARKS.upper_lip_top_center}, dy)),
             contour_moved |-> calculate_lip_metrics_multipoint(
                                   MoveY(lms, SampledContour, dy)) ]
    /\ pc' = "returned"
    /\ UNCHANGED <<inputs, quality, eyes, prev_eyes, nose, lips, boxes, pixel_boxes,
                   summary, result, shared, runs>>

NextLipSamples == CalculateLipMetrics

SpecLipSamples == InitFn /\ [][NextLipSamples]_vars

\* C26: the lip thickness is a median over several sampled contour pairs:
\* displacing the sampled contour points changes what is measured, and a
\* displacement of the upper-lip centre point alone, an outlier at one pair,
\* leaves the reported upper-lip thickness as it was.
C26_MedianOverSampledPairs ==
    (fn_call # None /\ fn_call.fn = "calculate_lip_metrics_multipoint") =>
        /\ fn_call.contour_moved # fn_call.result
        /\ fn_call.centre_moved.upper_lip_thickness = fn_call.result.upper_lip_thickness

(***************************************************************************)
(* The robust eye height: classify_eyes on eyes whose paired lid distances *)
(* lie inside, on and outside the sanity band                              *)
(***************************************************************************)
HeightFaces ==
    { Face([BaseEye EXCEPT !.open = o, !.sag = sg, !.tilt = t],
           left_eye, BaseGeom) :
        o \in {300, 10, 5000, 8, 5200}, sg \in {0, 100, 290}, t \in {0, 10, 400},
        left_eye \in {BaseEye, [BaseEye EXCEPT !.open = 8, !.sag = 0]} }

InitHeights ==
    /\ landmarks \in HeightFaces
    /\ image = [width |-> 640, height |-> 480]
    /\ confidences = <<>>
    /\ padding = (15 * SCALE) \div 100
    /\ pc = "eyes"
    /\ NoResults

NextHeights == ClassifyEyes

SpecHeights == InitHeights /\ [][NextHeights]_vars

\* the vertical distances of the paired upper-lid and lower-lid points
PairDistances(tab) ==
    [ i \in 1..Min2(Len(tab.upper_lid), Len(tab.lower_lid)) |->
        Abs(landmarks[tab.upper_lid[i]].y - landmarks[tab.lower_lid[i]].y) ]

InBand(d) == (SCALE \div 1000) < d /\ d < (SCALE \div 2)

RobustHeight(m, tab) ==
    LET surviving == SelectSeq(PairDistances(tab), InBand)
    IN  /\ m.height_samples = Len(surviving)
        /\ m.height = IF surviving # <<>> THEN Median(surviving)
                      ELSE Abs(landmarks[tab.top_center].y
                               - landmarks[tab.bottom_center].y)
        /\ m.measurement_stability
               = IF Len(surviving) < 2 THEN SCALE
                 ELSE (SCALE * SCALE) \div (SCALE + 10 * StdDev(surviving))
        /\ 0 < m.measurement_stability
        /\ m.measurement_stability <= SCALE

\* C27: per eye the height is the median of the paired lid distances d with
\* 0.001 < d < 0.5, the limits excluded, and the top-centre to bottom-centre
\* distance when none survives; measurement_stability is
\* 1 / (1 + 10 * stdev(surviving)), in (0,1], and 1 with fewer than two
\* surviving samples.
C27_RobustEyeHeight ==
    (eyes # None) =>
        /\ RobustHeight(eyes.metrics.right_eye, RIGHT_EYE_LANDMARKS)
        /\ RobustHeight(eyes.metrics.left_eye, LEFT_EYE_LANDMARKS)

\* right eye: the five pairs 0.001 apart are discarded and the tilted corner
\* pair at 0.04 is the one survivor;
\* left eye: every pair is discarded and the centre distance 0.0008 is used
C27_Witness ==
    /\ eyes # None
    /\ PairDistances(RIGHT_EYE_LANDMARKS)[1] = SCALE \div 1000
    /\ eyes.metrics.right_eye.height_samples = 1
    /\ eyes.metrics.right_eye.height = (4 * SCALE) \div 100
    /\ eyes.metrics.right_eye.measurement_stability = SCALE
    /\ eyes.metrics.left_eye.height_samples = 0
    /\ eyes.metrics.left_eye.height = (8 * SCALE) \div 10000

(***************************************************************************)
(* validate_all on faces whose mouth opening, mouth corners and brows vary *)
(***************************************************************************)
\* mouth gaps 0.004, 0.03 and 0.04 on a mouth 0.2 wide (ratios 0.02, 0.15
\* and 0.2) or of no width; both corners level or raised, the left one
\* raised further or not; brows 0.04, 0.08 and 0.12 above the eye tops
ExpressionFaces ==
    { MoveY(Face(BaseEye, BaseEye,
                 [BaseGeom EXCEPT !.gap = gap, !.corner_up = up, !.brow_y = by,
                                  !.mw = mw, !.forehead_x = fx]),
            {61}, -left_up) :
        gap \in {40, 300, 400}, up \in {0, 100}, left_up \in {0, 100},
        by \in {3300, 2900, 2500}, mw \in {2000, 0}, fx \in {5000, 2000} }

InitExpression ==
    /\ landmarks \in ExpressionFaces
    /\ image = [width |-> 640, height |-> 480]
    /\ confidences = <<>>
    /\ padding = (15 * SCALE) \div 100
    /\ pc = "validate"
    /\ NoResults

NextExpression == ValidateAll

SpecExpression == InitExpression /\ [][NextExpression]_vars

\* both mouth corners lie above the line midway between the lip centres
CornersAboveMidline ==
    /\ 2 * landmarks[61].y < landmarks[13].y + landmarks[14].y
    /\ 2 * landmarks[291].y < landmarks[13].y + landmarks[14].y

\* C28: the expression type is mouth_open when the mouth aspect ratio
\* exceeds 0.15, else smiling when both corners lie above the lip midline,
\* else eyebrows_raised when the mean brow distance exceeds 0.08, else
\* neutral; is_neutral holds exactly for neutral, expression_confidence is
\* 1.0 when neutral and 0.5 otherwise, and validate_all warns about the
\* expression exactly when is_neutral is False.
C28_ExpressionPriority ==
    (quality # None) =>
        LET e == quality.expression
            brows_2 == Abs(landmarks[55].y - landmarks[159].y)
                       + Abs(landmarks[285].y - landmarks[386].y)
        IN  /\ e.expression_type =
                 ( IF e.mouth_aspect_ratio > (15 * SCALE) \div 100 THEN "mouth_open"
                   ELSE IF CornersAboveMidline THEN "smiling"
                   ELSE IF brows_2 > 2 * ((8 * SCALE) \div 100) THEN "eyebrows_raised"
                   ELSE "neutral" )
            /\ e.is_neutral <=> (e.expression_type = "neutral")
            /\ e.expression_confidence = IF e.is_neutral THEN SCALE ELSE SCALE \div 2
            /\ ("expression" \in SeqSet(quality.warnings)) <=> ~e.is_neutral

\* an open mouth on a smiling face with raised brows is reported as
\* mouth_open, with confidence 0.5 and the expression warning
C28_Witness ==
    /\ quality # None
    /\ quality.expression.mouth_aspect_ratio = (2 * SCALE) \div 10
    /\ CornersAboveMidline
    /\ quality.expression.eyebrow_distance = (12 * SCALE) \div 100
    /\ quality.expression.expression_type = "mouth_open"
    /\ quality.expression.expression_confidence = SCALE \div 2
    /\ "expression" \in SeqSet(quality.warnings)

(***************************************************************************)
(* The shape of the eye result                                             *)
(***************************************************************************)
\* C29: for every metric combination confidence_scores is never empty, holds
\* exactly one base-shape key and at most one angle key and no other key;
\* the overall confidence is confidence_scores[primary shape];
\* secondary_features has at most one element and never holds the primary
\* shape. The argument of max() in create_summary is therefore never empty.
C29_EyeResultWellFormed ==
    ShapeCall =>
        LET r == fn_call.result
            keys == DOMAIN r.confidence_scores
        IN  /\ keys # {}
            /\ {r.confidence_scores[k] : k \in keys} # {}
            /\ keys \subseteq BaseShapes \cup AngleShapes
            /\ Cardinality(keys \cap BaseShapes) = 1
            /\ Cardinality(keys \cap AngleShapes) <= 1
            /\ r.primary_shape \in keys
            /\ r.primary_shape \in keys
                   => r.overall_confidence = r.confidence_scores[r.primary_shape]
            /\ Len(r.secondary_features) <= 1
            /\ \A k \in DOMAIN r.secondary_features :
                   r.secondary_features[k] # r.primary_shape

\* a strongly downturned Round eye: two scores, the angle primary, the
\* base shape secondary
C29_Witness ==
    /\ ShapeCall
    /\ fn_call.metrics.corner_angle = -(4 * SCALE)
    /\ DOMAIN fn_call.result.confidence_scores = {"Downturned", "Round"}
    /\ fn_call.result.primary_shape = "Downturned"
    /\ fn_call.result.secondary_features = <<"Round">>
    /\ fn_call.result.overall_confidence
           = fn_call.result.confidence_scores["Downturned"]

(***************************************************************************)
(* The number and order of the warnings of validate_all                    *)
(***************************************************************************)
\* the warnings in the order of the checks, each present or absent
OrderedWarnings ==
    { (IF p THEN <<"head_pose">> ELSE <<>>)
      \o (IF e THEN <<"expression">> ELSE <<>>)
      \o (IF c THEN <<"landmark_confidence">> ELSE <<>>) :
        p \in BOOLEAN, e \in BOOLEAN, c \in BOOLEAN }

\* C30: validate_all appends at most one warning per check, in the order
\* head pose, expression, landmark confidence, so there are at most three;
\* when no landmark confidences are passed, as analyze_image does (an empty
\* list counts as not supplied), there are at most two, and is_acceptable is
\* TRUE exactly when quality_score >= 0.6.
C30_WarningsBounded ==
    (quality # None /\ ~quality.raised) =>
        /\ quality.warnings \in OrderedWarnings
        /\ Len(quality.warnings) <= 3
        /\ confidences = <<>> =>
             /\ ~quality.has_landmark_confidence
             /\ Len(quality.warnings) <= 2
             /\ quality.is_acceptable <=> (quality.quality_score >= (6 * SCALE) \div 10)

\* no confidences passed, a turned head and a non-neutral expression: two
\* warnings, and the result is acceptable on its score
C30_Witness ==
    /\ quality # None
    /\ ~quality.raised
    /\ confidences = <<>>
    /\ ~quality.head_pose.is_frontal
    /\ ~quality.expression.is_neutral
    /\ quality.warnings = <<"head_pose", "expression">>
    /\ quality.quality_score >= (6 * SCALE) \div 10
    /\ quality.is_acceptable
=============================================================================
